---- MODULE Spec2Model ----
(***************************************************************************)
(* Trust and replay-protection layer of beacon-skill: the TOFU key store   *)
(* and inbox scan of beacon_skill/inbox.py, the replay guard               *)
(* (beacon_skill/guard.py) and the relay /relay/ping state machine         *)
(* (atlas/beacon_chat.py).                                                 *)
(***************************************************************************)
EXTENDS Integers, Sequences, FiniteSets, TLC

(***************************************************************************)
(* Bounds of the model.                                                    *)
(***************************************************************************)
MaxClockSteps == 1
MaxRotations == 2
NumThreads == 3
MaxInbox == 2
MaxRelaySteps == 3
NumWorkers == 2
NumCallers == 2
MaxReadNonces == 2
MaxMarks == 3
MaxLimiterCalls == 4
MaxRetries == 3
MaxLines == 3
MaxScanCalls == 1
MaxEntries == 2

(***************************************************************************)
(* Values.  Public keys are hex strings; "" is the absent/empty key and    *)
(* BadHex a string bytes.fromhex rejects.  A signature is abstracted to    *)
(* the key that made it and the message it covers.                         *)
(***************************************************************************)
AgentIds == {"bcn_a1", "bcn_a2"}
Keys == {"k1", "k2"}
BadHex == "zz"
PubkeyInputs == Keys \cup {"", BadHex}
TrustInputs == Keys \cup {""}

Sig(by, over) == [by |-> by, over |-> over]
NoSig == Sig("", "")
BadHexSig == Sig(BadHex, BadHex)
RotationSigs == {Sig(k, m) : k \in Keys, m \in Keys}

IsHex(s) == s \in Keys \cup {""}

\* hashlib.sha256(pubkey_bytes).hexdigest()[:12] with the "bcn_" prefix
AgentIdFromPubkey(pubkey_hex) ==
    CASE pubkey_hex = "k1" -> "bcn_a1"
      [] pubkey_hex = "k2" -> "bcn_a2"
      [] OTHER -> "bcn_e3b0"

\* AgentIdentity.verify: fails closed on malformed hex, never raises
Verify(pubkey_hex, sig, msg) ==
    /\ pubkey_hex \in Keys
    /\ sig.by = pubkey_hex
    /\ sig.over = msg

DEFAULT_KEY_TTL_SECONDS == 30 * 24 * 60 * 60

\* freshness window of the replay guard: a ts this old or older is stale
NONCE_WINDOW_S == 3600

Nonces == {"n1", "n2"}
Threads == 1..NumThreads

VARIABLES
    known_keys,   \* known_keys.json: agent_id -> key metadata
    clock,        \* time.time()
    ticks,        \* clock advances so far
    op,           \* the last key-store call and what it returned
    nonce_cache,  \* replay guard: nonces admitted so far
    gpc,          \* per thread: "idle", "calling", "done"
    genv,         \* per thread: the envelope passed to check_envelope_window
    gres,         \* per thread: (ok, reason) returned
    relay_agents, \* relay_agents table: agent_id -> RelayAgentRecord
    next_token,   \* the next relay_token the relay will generate
    resp,         \* the POST /relay/ping exchange the client has not read yet
    history,      \* per agent_id: the nonces of the pings answered 200/201
    workers,      \* per relay worker: the ping it handles and its answer
    calls,        \* concurrent key-store calls: each caller's position
    file_damage,  \* what happened to known_keys.json behind the program's back
    read_nonces,  \* state["read_nonces"]: the nonces marked read
    mark_log,     \* the nonces passed to mark_read, in the order of the calls
    requests,     \* RateLimiter._requests: key -> timestamps, in insertion order
    allowed_log,  \* per key: the times at which is_allowed returned True
    limiter_op,   \* the last RateLimiter call, what it found and what it returned
    send,         \* DiscordTransport._send_payload: the call in progress
    listener,     \* DiscordListener: the source file, its position in it, its polls
    replay,       \* replay guard with its retention window: entries, admissions, last check
    scan,         \* read_inbox in progress: the inbox and the key store it loaded
    buckets,      \* TokenBucketRateLimiter._buckets: ip -> (tokens, last_refill)
    bucket_op     \* the last allow call: its ip, what it returned, the buckets before

keyVars == <<known_keys, op>>
timeVars == <<clock, ticks>>
guardVars == <<nonce_cache, gpc, genv, gres>>
relayVars == <<relay_agents, next_token, resp, history>>
workerVars == <<workers>>
callVars == <<calls>>
fileVars == <<file_damage>>
readVars == <<read_nonces, mark_log>>
limiterVars == <<requests, allowed_log, limiter_op>>
sendVars == <<send>>
listenerVars == <<listener>>
replayVars == <<replay>>
scanVars == <<scan>>
bucketVars == <<buckets, bucket_op>>
afterScanVars == <<bucketVars>>
afterReplayVars == <<scanVars, afterScanVars>>
afterListenerVars == <<replayVars, afterReplayVars>>
afterSendVars == <<listenerVars, afterListenerVars>>
afterLimiterVars == <<sendVars, afterSendVars>>
afterReadVars == <<limiterVars, afterLimiterVars>>
afterFileVars == <<readVars, afterReadVars>>
restVars == <<fileVars, afterFileVars>>
vars == <<known_keys, clock, ticks, op, nonce_cache, gpc, genv, gres,
          relay_agents, next_token, resp, history, workers, calls, restVars>>

Put(f, a, r) == [x \in DOMAIN f \cup {a} |-> IF x = a THEN r ELSE f[x]]
Del(f, a) == [x \in DOMAIN f \ {a} |-> f[x]]
Contains(s, e) == \E i \in 1..Len(s) : s[i] = e
\* the mapping restricted to the agents in S
Only(keys, S) == [a \in S |-> keys[a]]

(***************************************************************************)
(* TOFU key store (beacon_skill/inbox.py).                                 *)
(***************************************************************************)
NewKeyRecord(pubkey_hex, now) ==
    [pubkey_hex |-> pubkey_hex, first_seen |-> now, last_seen |-> now,
     rotation_count |-> 0, previous_keys |-> <<>>,
     ttl_seconds |-> DEFAULT_KEY_TTL_SECONDS]

\* old key appended unless empty or already listed
ArchiveOldKey(previous_keys, old_key) ==
    IF old_key # "" /\ ~Contains(previous_keys, old_key)
    THEN Append(previous_keys, old_key)
    ELSE previous_keys

\* slip: the rotation is not counted
RotatedRecordUncounted(existing, pubkey_hex, now) ==
    [pubkey_hex |-> pubkey_hex, first_seen |-> existing.first_seen,
     last_seen |-> now, rotation_count |-> existing.rotation_count,
     previous_keys |-> ArchiveOldKey(existing.previous_keys, existing.pubkey_hex),
     ttl_seconds |-> existing.ttl_seconds]

\* slip: the rotated record starts its life anew
RotatedRecordReborn(existing, pubkey_hex, now) ==
    [pubkey_hex |-> pubkey_hex, first_seen |-> now,
     last_seen |-> now, rotation_count |-> existing.rotation_count + 1,
     previous_keys |-> ArchiveOldKey(existing.previous_keys, existing.pubkey_hex),
     ttl_seconds |-> existing.ttl_seconds]

RotatedRecord(existing, pubkey_hex, now) ==
    [pubkey_hex |-> pubkey_hex, first_seen |-> existing.first_seen,
     last_seen |-> now, rotation_count |-> existing.rotation_count + 1,
     previous_keys |-> ArchiveOldKey(existing.previous_keys, existing.pubkey_hex),
     ttl_seconds |-> existing.ttl_seconds]

\* slip: the new key is installed whether or not rotation is allowed
TrustExistingOverwrite(keys, agent_id, pubkey_hex, allow_rotate, now) ==
    LET existing == keys[agent_id] IN
    IF existing.pubkey_hex = pubkey_hex
    THEN [keys |-> Put(keys, agent_id, [existing EXCEPT !.last_seen = now]),
          ret |-> TRUE]
    ELSE [keys |-> Put(keys, agent_id, RotatedRecord(existing, pubkey_hex, now)),
          ret |-> TRUE]

\* the branch of trust_key taken for an agent that has a record
TrustExisting(keys, agent_id, pubkey_hex, allow_rotate, now) ==
    LET existing == keys[agent_id] IN
    IF existing.pubkey_hex = pubkey_hex
    THEN [keys |-> Put(keys, agent_id, [existing EXCEPT !.last_seen = now]),
          ret |-> TRUE]
    ELSE IF ~allow_rotate
    THEN [keys |-> keys, ret |-> FALSE]
    ELSE [keys |-> Put(keys, agent_id, RotatedRecord(existing, pubkey_hex, now)),
          ret |-> TRUE]

trust_key(keys, agent_id, pubkey_hex, allow_rotate, now) ==
    IF agent_id \in DOMAIN keys
    THEN TrustExisting(keys, agent_id, pubkey_hex, allow_rotate, now)
    ELSE [keys |-> Put(keys, agent_id, NewKeyRecord(pubkey_hex, now)),
          ret |-> TRUE]

\* slip: the whole mapping is dropped with the revoked record
RevokeDropsAll(keys, agent_id) ==
    IF agent_id \in DOMAIN keys
    THEN [keys |-> Only(keys, {}), ret |-> TRUE]
    ELSE [keys |-> keys, ret |-> FALSE]

revoke_key(keys, agent_id) ==
    IF agent_id \in DOMAIN keys
    THEN [keys |-> Del(keys, agent_id), ret |-> TRUE]
    ELSE [keys |-> keys, ret |-> FALSE]

\* slip: the signature is not checked
RotationProofUnchecked(old_pubkey, new_pubkey_hex, sig) == IsHex(new_pubkey_hex)

\* the try block of rotate_key: hex decoding of the new key, then the
\* signature of the old key over the new key's bytes
RotationProofOk(old_pubkey, new_pubkey_hex, sig) ==
    /\ IsHex(new_pubkey_hex)
    /\ Verify(old_pubkey, sig, new_pubkey_hex)

rotate_key(keys, agent_id, new_pubkey_hex, sig, now) ==
    IF agent_id \notin DOMAIN keys
    THEN [keys |-> keys, ret |-> FALSE]
    ELSE IF keys[agent_id].pubkey_hex = ""
    THEN [keys |-> keys, ret |-> FALSE]
    ELSE IF ~RotationProofOk(keys[agent_id].pubkey_hex, new_pubkey_hex, sig)
    THEN [keys |-> keys, ret |-> FALSE]
    ELSE trust_key(keys, agent_id, new_pubkey_hex, TRUE, now)

RECURSIVE TotalRotations(_, _)
TotalRotations(keys, agents) ==
    IF agents = {} THEN 0
    ELSE LET a == CHOOSE x \in agents : TRUE IN
         keys[a].rotation_count + TotalRotations(keys, agents \ {a})

\* rotation_count is unbounded in the code: runs are cut at MaxRotations
RotationsWithin(keys) == TotalRotations(keys, DOMAIN keys) <= MaxRotations

\* unproven: the call was a scan that met an envelope whose key differs
\* from the stored one and whose sig is no rotation proof
\* listed: what a list_keys call returned
\* learned: the agents a scan created a record for
\* results: how many entries a filtered read_inbox call returned
OpRecord(name, ret) ==
    [name |-> name, ret |-> ret, unproven |-> FALSE, listed |-> <<>>, learned |-> {},
     results |-> 0]

NoOp == OpRecord("none", FALSE)

TrustKey(agent_id, pubkey_hex, allow_rotate) ==
    LET r == trust_key(known_keys, agent_id, pubkey_hex, allow_rotate, clock) IN
    /\ RotationsWithin(r.keys)
    /\ known_keys' = r.keys
    /\ op' = OpRecord("trust_key", r.ret)
    /\ UNCHANGED <<timeVars, guardVars, relayVars, workerVars, callVars, restVars>>

RevokeKey(agent_id) ==
    LET r == revoke_key(known_keys, agent_id) IN
    /\ known_keys' = r.keys
    /\ op' = OpRecord("revoke_key", r.ret)
    /\ UNCHANGED <<timeVars, guardVars, relayVars, workerVars, callVars, restVars>>

RotateKey(agent_id, new_pubkey_hex, sig) ==
    LET r == rotate_key(known_keys, agent_id, new_pubkey_hex, sig, clock) IN
    /\ RotationsWithin(r.keys)
    /\ known_keys' = r.keys
    /\ op' = OpRecord("rotate_key", r.ret)
    /\ UNCHANGED <<timeVars, guardVars, relayVars, workerVars, callVars, restVars>>

Tick ==
    /\ ticks < MaxClockSteps
    /\ ticks' = ticks + 1
    /\ clock' = clock + 1
    /\ UNCHANGED <<keyVars, guardVars, relayVars, workerVars, callVars, restVars>>

\* slip: a record exactly at its ttl counts as expired
KeyExpiredAtBoundary(key_meta, now) ==
    (now - key_meta.last_seen) >= key_meta.ttl_seconds

is_key_expired(key_meta, now) ==
    (now - key_meta.last_seen) > key_meta.ttl_seconds

list_keys(keys, show_expired, now) ==
    IF show_expired
    THEN keys
    ELSE Only(keys, {a \in DOMAIN keys : ~is_key_expired(keys[a], now)})

\* list_keys loads the file and returns; it saves nothing
ListKeys(show_expired) ==
    /\ op' = [OpRecord("list_keys", show_expired)
                 EXCEPT !.listed = list_keys(known_keys, show_expired, clock)]
    /\ UNCHANGED <<known_keys, timeVars, guardVars, relayVars, workerVars, callVars, restVars>>

\* time passes: a second, a key lifetime to the second, or a second more
KeyClockSteps == {1, DEFAULT_KEY_TTL_SECONDS, DEFAULT_KEY_TTL_SECONDS + 1}

Elapse(d) ==
    /\ ticks < MaxClockSteps
    /\ ticks' = ticks + 1
    /\ clock' = clock + d
    /\ UNCHANGED <<keyVars, guardVars, relayVars, workerVars, callVars, restVars>>

NextExpiry ==
    \/ \E a \in AgentIds, k \in Keys, r \in BOOLEAN : TrustKey(a, k, r)
    \/ \E a \in AgentIds, k \in Keys, s \in RotationSigs : RotateKey(a, k, s)
    \/ \E show_expired \in BOOLEAN : ListKeys(show_expired)
    \/ \E d \in KeyClockSteps : Elapse(d)

(***************************************************************************)
(* Inbox scan (beacon_skill/inbox.py): read_inbox and the auto-learn path. *)
(***************************************************************************)
Envelope(agent_id, pubkey, sig) ==
    [agent_id |-> agent_id, pubkey |-> pubkey, sig |-> sig]

\* envelopes a transport can deliver: any agent_id with no embedded key, a
\* key that is not hex or a key and no sig; and, for the agent_id a key
\* derives to, that key with a sig that is not hex or with a signature
\* made by some key over it
Envelopes ==
    {Envelope(a, k, NoSig) : a \in AgentIds, k \in PubkeyInputs}
    \cup {Envelope(AgentIdFromPubkey(k), k, BadHexSig) : k \in Keys}
    \cup {Envelope(AgentIdFromPubkey(k), k, Sig(by, k)) : k \in Keys, by \in Keys}

RECURSIVE SeqsUpTo(_, _)
SeqsUpTo(S, n) ==
    IF n = 0 THEN {<<>>}
    ELSE LET shorter == SeqsUpTo(S, n - 1) IN
         shorter \cup {Append(q, e) : q \in shorter, e \in S}

Inboxes == SeqsUpTo(Envelopes, MaxInbox)

LearnState(mem, disk, raised) == [mem |-> mem, disk |-> disk, raised |-> raised]

\* slip: a differing key replaces the stored one without any proof
LearnExistingOverwrite(env, mem, disk, now) ==
    IF mem[env.agent_id].pubkey_hex = env.pubkey
    THEN LearnState(Put(mem, env.agent_id,
                        [mem[env.agent_id] EXCEPT !.last_seen = now]), disk, FALSE)
    ELSE LearnState(Put(mem, env.agent_id, NewKeyRecord(env.pubkey, now)), disk, FALSE)

\* _learn_key_from_envelope for an agent the loaded mapping already holds:
\* the same key refreshes last_seen in memory; a different key is handed,
\* with the envelope's sig, to rotate_key, which works on the file
LearnExisting(env, mem, disk, now) ==
    IF mem[env.agent_id].pubkey_hex = env.pubkey
    THEN LearnState(Put(mem, env.agent_id,
                        [mem[env.agent_id] EXCEPT !.last_seen = now]), disk, FALSE)
    ELSE IF env.sig = NoSig
    THEN LearnState(mem, disk, FALSE)
    ELSE IF env.sig = BadHexSig
    THEN LearnState(mem, disk, TRUE)
    ELSE LearnState(mem, rotate_key(disk, env.agent_id, env.pubkey, env.sig, now).keys,
                    FALSE)

\* slip: the embedded key is learned under whatever agent_id the envelope names
LearnUnderAnyId(env, mem, disk, now) ==
    IF env.agent_id = "" \/ env.pubkey = ""
    THEN LearnState(mem, disk, FALSE)
    ELSE IF ~IsHex(env.pubkey)
    THEN LearnState(mem, disk, TRUE)
    ELSE IF env.agent_id \in DOMAIN mem
    THEN LearnExisting(env, mem, disk, now)
    ELSE LearnState(Put(mem, env.agent_id, NewKeyRecord(env.pubkey, now)), disk, FALSE)

\* _learn_key_from_envelope: mem is the mapping read_inbox loaded, disk the
\* file; raised tells that bytes.fromhex raised ValueError
learn_key_from_envelope(env, mem, disk, now) ==
    IF env.agent_id = "" \/ env.pubkey = ""
    THEN LearnState(mem, disk, FALSE)
    ELSE IF ~IsHex(env.pubkey)
    THEN LearnState(mem, disk, TRUE)
    ELSE IF AgentIdFromPubkey(env.pubkey) # env.agent_id
    THEN LearnState(mem, disk, FALSE)
    ELSE IF env.agent_id \in DOMAIN mem
    THEN LearnExisting(env, mem, disk, now)
    ELSE LearnState(Put(mem, env.agent_id, NewKeyRecord(env.pubkey, now)), disk, FALSE)

\* the loop of read_inbox from envelope i on, then save_known_keys; an
\* exception leaves the loop and the function before the save
RECURSIVE ScanFrom(_, _, _, _, _)
ScanFrom(inbox, i, mem, disk, now) ==
    IF i > Len(inbox)
    THEN [keys |-> mem, raised |-> FALSE]
    ELSE LET r == learn_key_from_envelope(inbox[i], mem, disk, now) IN
         IF r.raised
         THEN [keys |-> r.disk, raised |-> TRUE]
         ELSE ScanFrom(inbox, i + 1, r.mem, r.disk, now)

\* keys: known_keys.json once read_inbox has returned or raised
read_inbox(keys, inbox, now) == ScanFrom(inbox, 1, keys, keys, now)

\* an envelope for agent a whose embedded key differs from the stored key
\* and that carries no sig, or a sig that is no rotation proof by that key
UnprovenKeyChange(keys, e, a) ==
    /\ e.agent_id = a
    /\ e.pubkey # ""
    /\ e.pubkey # keys[a].pubkey_hex
    /\ ~RotationProofOk(keys[a].pubkey_hex, e.pubkey, e.sig)

HasUnprovenKeyChange(keys, inbox) ==
    \E a \in DOMAIN keys, i \in 1..Len(inbox) : UnprovenKeyChange(keys, inbox[i], a)

ReadInbox(inbox) ==
    LET r == read_inbox(known_keys, inbox, clock) IN
    /\ RotationsWithin(r.keys)
    /\ known_keys' = r.keys
    /\ op' = [OpRecord("read_inbox", ~r.raised)
                 EXCEPT !.unproven = HasUnprovenKeyChange(known_keys, inbox),
                        !.learned = DOMAIN r.keys \ DOMAIN known_keys]
    /\ UNCHANGED <<timeVars, guardVars, relayVars, workerVars, callVars, restVars>>

NextInbox ==
    \/ \E a \in AgentIds, k \in Keys, r \in BOOLEAN : TrustKey(a, k, r)
    \/ \E a \in AgentIds : RevokeKey(a)
    \/ \E inbox \in Inboxes : ReadInbox(inbox)

\* key-store calls and scans while time passes
NextStamps ==
    \/ \E a \in AgentIds, k \in Keys, r \in BOOLEAN : TrustKey(a, k, r)
    \/ \E a \in AgentIds, k \in Keys, s \in RotationSigs : RotateKey(a, k, s)
    \/ \E a \in AgentIds : RevokeKey(a)
    \/ \E inbox \in SeqsUpTo(Envelopes, 1) : ReadInbox(inbox)
    \/ Tick

(***************************************************************************)
(* Replay guard (beacon_skill/guard.py): check_envelope_window.            *)
(***************************************************************************)
\* slip: a timestamp exactly one window old still counts as fresh
StaleBeyondWindow(ts, now) == now - ts > NONCE_WINDOW_S

IsStale(ts, now) == now - ts >= NONCE_WINDOW_S

\* slip: the nonce is admitted without looking at the set
NonceInsertUnchecked(cache, nonce) ==
    [cache |-> cache \cup {nonce}, inserted |-> TRUE]

\* the single atomic insert-if-absent on the nonce set
NonceInsertIfAbsent(cache, nonce) ==
    [cache |-> cache \cup {nonce}, inserted |-> nonce \notin cache]

check_envelope_window(cache, env, now) ==
    IF IsStale(env.ts, now)
    THEN [cache |-> cache, ok |-> FALSE, reason |-> "stale"]
    ELSE LET r == NonceInsertIfAbsent(cache, env.nonce) IN
         [cache |-> r.cache, ok |-> r.inserted,
          reason |-> IF r.inserted THEN "ok" ELSE "replay"]

\* a worker thread receives an envelope and enters check_envelope_window
GuardCall(t, nonce, ts) ==
    /\ gpc[t] = "idle"
    /\ gpc' = [gpc EXCEPT ![t] = "calling"]
    /\ genv' = [genv EXCEPT ![t] = [nonce |-> nonce, ts |-> ts]]
    /\ UNCHANGED <<nonce_cache, gres>>
    /\ UNCHANGED <<keyVars, timeVars, relayVars, workerVars, callVars, restVars>>

\* the call takes effect and returns (ok, reason)
GuardCheck(t) ==
    LET r == check_envelope_window(nonce_cache, genv[t], clock) IN
    /\ gpc[t] = "calling"
    /\ nonce_cache' = r.cache
    /\ gres' = [gres EXCEPT ![t] = [ok |-> r.ok, reason |-> r.reason]]
    /\ gpc' = [gpc EXCEPT ![t] = "done"]
    /\ UNCHANGED genv
    /\ UNCHANGED <<keyVars, timeVars, relayVars, workerVars, callVars, restVars>>

NextGuard ==
    \/ \E t \in Threads, n \in Nonces, ts \in {clock, clock - NONCE_WINDOW_S} :
          GuardCall(t, n, ts)
    \/ \E t \in Threads : GuardCheck(t)

(***************************************************************************)
(* Relay registration/heartbeat state machine: POST /relay/ping            *)
(* (atlas/beacon_chat.py).                                                 *)
(***************************************************************************)
\* lifetime of a relay_token issued at registration
RELAY_TOKEN_TTL_S == 86400

\* agent_id.startswith("bcn_")
BcnIds == {"bcn_a1", "bcn_a2", "bcn_e3b0"}
RelayIds == {"bcn_a1", "relay_sh"}
IsBcn(agent_id) == agent_id \in BcnIds

NoToken == 0
\* absent, the tokens the relay can issue (one per agent_id), and one it
\* never issued
TokenInputs == 0..(Cardinality(RelayIds) + 1)

PingRequest(agent_id, pubkey_hex, signature, nonce, ts, relay_token) ==
    [agent_id |-> agent_id, pubkey_hex |-> pubkey_hex, signature |-> signature,
     nonce |-> nonce, ts |-> ts, relay_token |-> relay_token]

\* the requests a client can send at time now; a request without ts is
\* treated like one with a fresh ts
PingSigs(agent_id) == {NoSig} \cup {Sig(by, agent_id) : by \in Keys}

PingRequestsFor(agent_id, now) ==
    {PingRequest(agent_id, k, s, n, ts, t) :
        k \in Keys \cup {""}, s \in PingSigs(agent_id),
        n \in Nonces \cup {""}, ts \in {now, now - NONCE_WINDOW_S},
        t \in TokenInputs}

PingRequests(now) == UNION {PingRequestsFor(a, now) : a \in RelayIds}

PingResult(agents, tok, status, error) ==
    [agents |-> agents, next_token |-> tok, status |-> status, error |-> error,
     beat_count |-> 0]

\* 200: the body carries the agent's beat_count as stored
BeatResult(agents, tok, agent_id) ==
    [PingResult(agents, tok, 200, "")
        EXCEPT !.beat_count = agents[agent_id].beat_count]

Passed == [status |-> 0, error |-> ""]
Refused(status, error) == [status |-> status, error |-> error]

\* the bearer token alone, with no check of its expiry
TokenAuthNoExpiry(existing, req, now) ==
    IF req.relay_token = NoToken
    THEN Refused(401, "relay_token required")
    ELSE IF req.relay_token # existing.relay_token
    THEN Refused(403, "Invalid relay_token")
    ELSE Passed

\* the bearer token: missing, wrong, expired
TokenAuth(existing, req, now) ==
    IF req.relay_token = NoToken
    THEN Refused(401, "relay_token required")
    ELSE IF req.relay_token # existing.relay_token
    THEN Refused(403, "Invalid relay_token")
    ELSE IF now > existing.token_expires
    THEN Refused(403, "relay_token expired")
    ELSE Passed

\* a signature that fails is handled as if none had been sent
HeartbeatAuthSigIgnored(existing, req, now) ==
    IF /\ req.signature # NoSig /\ existing.pubkey_hex # ""
       /\ Verify(existing.pubkey_hex, req.signature, req.agent_id)
    THEN Passed
    ELSE TokenAuth(existing, req, now)

\* a signature, when the record has a pubkey on file, must verify and then
\* stands for the bearer token; otherwise the token must be present (401),
\* equal to the stored one (403) and not expired (403)
HeartbeatAuth(existing, req, now) ==
    IF req.signature # NoSig /\ existing.pubkey_hex # ""
    THEN IF Verify(existing.pubkey_hex, req.signature, req.agent_id)
         THEN Passed
         ELSE Refused(401, "Invalid signature")
    ELSE TokenAuth(existing, req, now)

\* the nonce is compared with the one stored in the agent's record
NonceReplayed(existing, nonce) == nonce # "" /\ nonce = existing.last_nonce

\* a heartbeat that also extends the token's lifetime
AcceptedBeatExtendsToken(existing, req, now) ==
    [existing EXCEPT !.beat_count = existing.beat_count + 1,
                     !.last_heartbeat = now,
                     !.token_expires = now + RELAY_TOKEN_TTL_S,
                     !.last_nonce = IF req.nonce # "" THEN req.nonce
                                    ELSE existing.last_nonce]

AcceptedBeatUncounted(existing, req, now) ==
    [existing EXCEPT !.last_heartbeat = now,
                     !.last_nonce = IF req.nonce # "" THEN req.nonce
                                    ELSE existing.last_nonce]

AcceptedBeat(existing, req, now) ==
    [existing EXCEPT !.beat_count = existing.beat_count + 1,
                     !.last_heartbeat = now,
                     !.last_nonce = IF req.nonce # "" THEN req.nonce
                                    ELSE existing.last_nonce]

\* heartbeat path: the agent_id has a record
Heartbeat(agents, req, now, tok) ==
    LET existing == agents[req.agent_id]
        auth == HeartbeatAuth(existing, req, now) IN
    IF auth.status # 0
    THEN PingResult(agents, tok, auth.status, auth.error)
    ELSE IF NonceReplayed(existing, req.nonce)
    THEN PingResult(agents, tok, 409, "nonce replay detected")
    ELSE IF IsStale(req.ts, now)
    THEN PingResult(agents, tok, 400, "stale timestamp")
    ELSE BeatResult(Put(agents, req.agent_id, AcceptedBeat(existing, req, now)),
                    tok, req.agent_id)

IdentityUnbound(agent_id, pubkey_hex) == TRUE

\* the pubkey must derive to a bcn_ agent_id; other ids are not derived
IdentityBound(agent_id, pubkey_hex) ==
    IsBcn(agent_id) => AgentIdFromPubkey(pubkey_hex) = agent_id

NewRelayAgent(req, now, tok) ==
    [pubkey_hex |-> req.pubkey_hex, relay_token |-> tok,
     token_expires |-> now + RELAY_TOKEN_TTL_S, beat_count |-> 1,
     last_heartbeat |-> now, last_nonce |-> req.nonce]

RegistrationSigUnchecked(req) == TRUE

\* verify_ed25519 over the agent_id
RegistrationSigOk(req) ==
    Verify(req.pubkey_hex, req.signature, req.agent_id)

\* registration path: the agent_id has no record
Registration(agents, req, now, tok) ==
    IF req.pubkey_hex = ""
    THEN PingResult(agents, tok, 400, "pubkey_hex required")
    ELSE IF req.signature = NoSig
    THEN PingResult(agents, tok, 400, "signature required")
    ELSE IF ~IdentityBound(req.agent_id, req.pubkey_hex)
    THEN PingResult(agents, tok, 400, "agent_id does not match pubkey")
    ELSE IF ~RegistrationSigOk(req)
    THEN PingResult(agents, tok, 403, "Invalid Ed25519 signature")
    ELSE IF IsStale(req.ts, now)
    THEN PingResult(agents, tok, 400, "stale timestamp")
    ELSE PingResult(Put(agents, req.agent_id, NewRelayAgent(req, now, tok)),
                    tok + 1, 201, "")

relay_ping(agents, req, now, tok) ==
    IF req.agent_id \in DOMAIN agents
    THEN Heartbeat(agents, req, now, tok)
    ELSE Registration(agents, req, now, tok)

RECURSIVE TotalBeats(_, _)
TotalBeats(agents, ids) ==
    IF ids = {} THEN 0
    ELSE LET a == CHOOSE x \in ids : TRUE IN
         agents[a].beat_count + TotalBeats(agents, ids \ {a})

\* beat_count and the clock are unbounded: a run is cut after
\* MaxRelaySteps accepted pings and clock advances
RelaySteps(agents) == TotalBeats(agents, DOMAIN agents) + ticks

NoRequest == PingRequest("", "", NoSig, "", 0, NoToken)

NoHistory == [registered |-> "", accepted |-> {}, answered200 |-> 0]

\* the nonces a client has had accepted, the one it registered with, and
\* the number of its pings answered 200
Logged(log, req, status) ==
    IF status = 201
    THEN Put(log, req.agent_id,
             [registered |-> req.nonce, accepted |-> {req.nonce} \ {""},
              answered200 |-> 0])
    ELSE IF status = 200
    THEN [log EXCEPT ![req.agent_id].accepted = @ \cup ({req.nonce} \ {""}),
                     ![req.agent_id].answered200 = @ + 1]
    ELSE log

\* a request and its response, with the table and token counter the relay
\* had when the request arrived and the client's nonces until then
Exchange(req, r, agents, tok, log) ==
    [pending |-> TRUE, req |-> req, status |-> r.status, error |-> r.error,
     beat_count |-> r.beat_count, agents |-> agents, next_token |-> tok,
     log |-> IF req.agent_id \in DOMAIN log THEN log[req.agent_id]
             ELSE NoHistory]

NoExchange ==
    [pending |-> FALSE, req |-> NoRequest, status |-> 0, error |-> "",
     beat_count |-> 0, agents |-> <<>>, next_token |-> 0, log |-> NoHistory]

\* one POST /relay/ping; the test client posts its pings one after another
RelayPing(req) ==
    LET r == relay_ping(relay_agents, req, clock, next_token) IN
    /\ RelaySteps(r.agents) <= MaxRelaySteps
    /\ relay_agents' = r.agents
    /\ next_token' = r.next_token
    /\ resp' = Exchange(req, r, relay_agents, next_token, history)
    /\ history' = Logged(history, req, r.status)
    /\ UNCHANGED <<keyVars, timeVars, guardVars, workerVars, callVars, restVars>>

\* the client reads the response
Receive ==
    /\ resp.pending
    /\ resp' = NoExchange
    /\ UNCHANGED <<relay_agents, next_token, history>>
    /\ UNCHANGED <<keyVars, timeVars, guardVars, workerVars, callVars, restVars>>

Idle == ~resp.pending

\* time passes: a second, or more than a token lifetime
ClockSteps == {1, RELAY_TOKEN_TTL_S + 1}

Advance(d) ==
    /\ Idle
    /\ ticks < MaxClockSteps
    /\ RelaySteps(relay_agents) < MaxRelaySteps
    /\ ticks' = ticks + 1
    /\ clock' = clock + d
    /\ UNCHANGED <<keyVars, guardVars, relayVars, workerVars, callVars, restVars>>

NextRelay ==
    \/ Idle /\ \E req \in PingRequests(clock) : RelayPing(req)
    \/ Receive
    \/ \E d \in ClockSteps : Advance(d)

(***************************************************************************)
(* Concurrent key-store calls (beacon_skill/inbox.py).  A call reads       *)
(* known_keys.json, changes its copy and writes the file back; nothing     *)
(* locks the file between the read and the write.                          *)
(***************************************************************************)
Callers == 1..NumCallers

KeyCall(name, agent_id, pubkey_hex, allow_rotate, sig) ==
    [name |-> name, agent_id |-> agent_id, pubkey_hex |-> pubkey_hex,
     allow_rotate |-> allow_rotate, sig |-> sig]

KeyCalls ==
    {KeyCall("trust_key", a, k, r, NoSig) :
        a \in AgentIds, k \in Keys, r \in BOOLEAN}
    \cup {KeyCall("revoke_key", a, "", FALSE, NoSig) : a \in AgentIds}
    \cup {KeyCall("rotate_key", a, k, FALSE, s) :
            a \in AgentIds, k \in Keys, s \in RotationSigs}

\* the call run from its load to its return on one copy of the store
ApplyCall(keys, c, now) ==
    CASE c.name = "trust_key" ->
            trust_key(keys, c.agent_id, c.pubkey_hex, c.allow_rotate, now)
      [] c.name = "revoke_key" -> revoke_key(keys, c.agent_id)
      [] c.name = "rotate_key" ->
            rotate_key(keys, c.agent_id, c.pubkey_hex, c.sig, now)

\* rotate_key up to its call of trust_key: the checks made on its own load
RotationAdmitted(keys, c) ==
    /\ c.agent_id \in DOMAIN keys
    /\ keys[c.agent_id].pubkey_hex # ""
    /\ RotationProofOk(keys[c.agent_id].pubkey_hex, c.pubkey_hex, c.sig)

\* what the call computes from the copy it loaded, up to its save
CallEffect(keys, c, now) ==
    CASE c.name = "trust_key" ->
            trust_key(keys, c.agent_id, c.pubkey_hex, c.allow_rotate, now)
      [] c.name = "revoke_key" -> revoke_key(keys, c.agent_id)
      [] c.name = "rotate_key" ->
            trust_key(keys, c.agent_id, c.pubkey_hex, TRUE, now)

\* no read_inbox call is in progress; during counts the key-store calls
\* that completed since the scan loaded the store
NoScan ==
    [pc |-> "idle", inbox |-> <<>>, mem |-> [a \in {} |-> NewKeyRecord("", 0)],
     during |-> 0]

\* the inboxes scanned while other calls change the key store
ScanInboxes == SeqsUpTo(Envelopes, 1)

\* read_inbox up to the loop: known_keys_with_meta = load_known_keys()
ScanLoads(inbox) ==
    /\ scan.pc = "idle"
    /\ scan' = [pc |-> "loaded", inbox |-> inbox, mem |-> known_keys, during |-> 0]
    /\ UNCHANGED <<keyVars, timeVars, guardVars, relayVars, workerVars, callVars,
                   fileVars, readVars, limiterVars, sendVars, listenerVars,
                   replayVars, afterScanVars>>

\* another caller's trust_key, rotate_key or revoke_key runs from its load
\* to its return while the scan is between its load and its save
CallDuringScan(c) ==
    LET r == ApplyCall(known_keys, c, clock) IN
    /\ scan.pc = "loaded"
    /\ scan.during < MaxScanCalls
    /\ RotationsWithin(r.keys)
    /\ known_keys' = r.keys
    /\ op' = OpRecord(c.name, r.ret)
    /\ scan' = [scan EXCEPT !.during = @ + 1]
    /\ UNCHANGED <<timeVars, guardVars, relayVars, workerVars, callVars,
                   fileVars, readVars, limiterVars, sendVars, listenerVars,
                   replayVars, afterScanVars>>

\* read_inbox from the loop to its return: the envelopes are learned into
\* the mapping loaded earlier, and save_known_keys writes that mapping
ScanReturns ==
    LET r == ScanFrom(scan.inbox, 1, scan.mem, known_keys, clock) IN
    /\ scan.pc = "loaded"
    /\ RotationsWithin(r.keys)
    /\ known_keys' = r.keys
    /\ op' = OpRecord("read_inbox", ~r.raised)
    /\ scan' = [scan EXCEPT !.pc = "returned"]
    /\ UNCHANGED <<timeVars, guardVars, relayVars, workerVars, callVars,
                   fileVars, readVars, limiterVars, sendVars, listenerVars,
                   replayVars, afterScanVars>>

\* the store is filled by trust_key before the scan starts
NextScan ==
    \/ /\ scan.pc = "idle"
       /\ \E a \in AgentIds, k \in Keys, r \in BOOLEAN : TrustKey(a, k, r)
    \/ \E inbox \in ScanInboxes : ScanLoads(inbox)
    \/ \E c \in KeyCalls : CallDuringScan(c)
    \/ ScanReturns

IdleCaller ==
    [pc |-> "idle", call |-> KeyCall("", "", "", FALSE, NoSig),
     loaded |-> <<>>, ret |-> FALSE]

NoCalls == [started |-> FALSE, base |-> <<>>, of |-> [p \in Callers |-> IdleCaller]]

Started(cs, keys) ==
    IF cs.started THEN cs ELSE [cs EXCEPT !.started = TRUE, !.base = keys]

\* the call starts: load_known_keys; rotate_key checks the proof on this
\* load and returns False or goes on to trust_key
CallBegins(p, c) ==
    /\ calls.of[p].pc = "idle"
    /\ calls' =
          [Started(calls, known_keys) EXCEPT !.of[p] =
              IF c.name # "rotate_key"
              THEN [IdleCaller EXCEPT !.pc = "loaded", !.call = c,
                                      !.loaded = known_keys]
              ELSE IF RotationAdmitted(known_keys, c)
              THEN [IdleCaller EXCEPT !.pc = "admitted", !.call = c]
              ELSE [IdleCaller EXCEPT !.pc = "done", !.call = c]]
    /\ UNCHANGED <<keyVars, timeVars, guardVars, relayVars, workerVars, restVars>>

\* load_known_keys of the trust_key that rotate_key calls
CallLoads(p) ==
    /\ calls.of[p].pc = "admitted"
    /\ calls' = [calls EXCEPT !.of[p].pc = "loaded",
                              !.of[p].loaded = known_keys]
    /\ UNCHANGED <<keyVars, timeVars, guardVars, relayVars, workerVars, restVars>>

\* the call changes its copy and, unless it returns False, writes it back
CallSaves(p) ==
    LET w == calls.of[p]
        r == CallEffect(w.loaded, w.call, clock) IN
    /\ w.pc = "loaded"
    /\ known_keys' = IF r.ret THEN r.keys ELSE known_keys
    /\ calls' = [calls EXCEPT !.of[p].pc = "done", !.of[p].ret = r.ret,
                              !.of[p].loaded = <<>>]
    /\ UNCHANGED <<op, timeVars, guardVars, relayVars, workerVars, restVars>>

NextCalls ==
    \/ ~calls.started /\ \E a \in AgentIds, k \in Keys : TrustKey(a, k, FALSE)
    \/ \E p \in Callers, c \in KeyCalls : CallBegins(p, c)
    \/ \E p \in Callers : CallLoads(p)
    \/ \E p \in Callers : CallSaves(p)

(***************************************************************************)
(* Concurrent pings: the relay's workers each handle one POST /relay/ping. *)
(* A ping arrives at a worker, which then runs the handler as one          *)
(* transaction on the agent's row.                                         *)
(***************************************************************************)
Workers == 1..NumWorkers

\* validly signed registration pings
SignedRegistrations(now) ==
    {PingRequest(a, k, Sig(k, a), n, now, NoToken) :
        a \in RelayIds, k \in Keys, n \in Nonces \cup {""}}

IdleWorker ==
    [pc |-> "idle", req |-> NoRequest, found |-> FALSE, status |-> 0,
     relay_token |-> NoToken]

\* the table as the worker saw it when the ping arrived: a lookup made
\* outside the transaction
RowLookupStale(agents, w) ==
    IF w.found THEN agents ELSE Del(agents, w.req.agent_id)

\* the lookup of the agent's row is made inside the transaction
RowLookup(agents, w) == agents

\* the row of agent_id as the handler leaves it
RowWritten(agents, r, agent_id) ==
    IF agent_id \in DOMAIN r.agents
    THEN Put(agents, agent_id, r.agents[agent_id])
    ELSE agents

PingArrives(t, req) ==
    /\ workers[t].pc = "idle"
    /\ workers' = [workers EXCEPT ![t] =
                      [IdleWorker EXCEPT !.pc = "handling", !.req = req,
                          !.found = req.agent_id \in DOMAIN relay_agents]]
    /\ UNCHANGED <<keyVars, timeVars, guardVars, relayVars, callVars, restVars>>

PingHandled(t) ==
    LET w == workers[t]
        r == relay_ping(RowLookup(relay_agents, w), w.req, clock, next_token) IN
    /\ w.pc = "handling"
    /\ relay_agents' = RowWritten(relay_agents, r, w.req.agent_id)
    /\ next_token' = r.next_token
    /\ history' = Logged(history, w.req, r.status)
    /\ workers' = [workers EXCEPT ![t] =
                      [w EXCEPT !.pc = "done", !.status = r.status,
                          !.relay_token = IF r.status = 201
                                          THEN r.agents[w.req.agent_id].relay_token
                                          ELSE NoToken]]
    /\ UNCHANGED <<keyVars, timeVars, guardVars, resp, callVars, restVars>>

NextRace ==
    \/ \E t \in Workers, req \in SignedRegistrations(clock) : PingArrives(t, req)
    \/ \E t \in Workers : PingHandled(t)

(***************************************************************************)
(* Read tracking (beacon_skill/inbox.py): mark_read and the is_read flag   *)
(* of read_inbox.  MaxReadNonces stands for the cap of 10000 nonces.       *)
(***************************************************************************)
MarkInputs == Nonces \cup {"n3", ""}

\* _save_read_nonce: the sets it can write.  Over the cap it keeps the last
\* MaxReadNonces elements of list(nonces), a list in the iteration order of
\* a set: any one element may be the one dropped
save_read_nonce(nonces, nonce) ==
    LET added == nonces \cup {nonce} IN
    IF Cardinality(added) > MaxReadNonces
    THEN {added \ {x} : x \in added}
    ELSE {added}

MarkRead(nonce) ==
    /\ Len(mark_log) < MaxMarks
    /\ read_nonces' \in save_read_nonce(read_nonces, nonce)
    /\ mark_log' = Append(mark_log, nonce)
    /\ UNCHANGED <<keyVars, timeVars, guardVars, relayVars, workerVars, callVars,
                   fileVars, afterReadVars>>

is_read(nonces, nonce) == nonce # "" /\ nonce \in nonces

\* the entries read_inbox returns for an inbox of envelopes with the given
\* nonces, each with its is_read flag
read_entries(inbox, nonces, unread_only) ==
    LET enriched == [i \in 1..Len(inbox) |->
                        [nonce |-> inbox[i], is_read |-> is_read(nonces, inbox[i])]]
        Unread(e) == ~e.is_read IN
    IF unread_only THEN SelectSeq(enriched, Unread) ELSE enriched

NonceInboxes == SeqsUpTo(MarkInputs, MaxInbox)

NextRead == \E n \in MarkInputs : MarkRead(n)

(***************************************************************************)
(* Rate limiting (beacon_skill/rate_limiting.py): RateLimiter, built with  *)
(* small limits so that cleanup and eviction run.                          *)
(***************************************************************************)
requests_per_minute == 1
window_seconds == 2
max_entries == 1
cleanup_threshold == 1

LimiterKeys == {"ip1", "ip2", "ip3"}

Entry(key, timestamps) == [key |-> key, timestamps |-> timestamps]

HasKey(reqs, key) == \E i \in 1..Len(reqs) : reqs[i].key = key

\* self._requests[key] of the defaultdict: a missing key reads as []
TimestampsOf(reqs, key) ==
    IF HasKey(reqs, key)
    THEN reqs[CHOOSE i \in 1..Len(reqs) : reqs[i].key = key].timestamps
    ELSE <<>>

\* self._requests[key] = timestamps: an existing key keeps its place, a new
\* one goes to the end
SetTimestamps(reqs, key, timestamps) ==
    IF HasKey(reqs, key)
    THEN [i \in 1..Len(reqs) |->
            IF reqs[i].key = key THEN Entry(key, timestamps) ELSE reqs[i]]
    ELSE Append(reqs, Entry(key, timestamps))

InWindow(timestamps, now) ==
    LET Recent(ts) == ts > now - window_seconds IN SelectSeq(timestamps, Recent)

\* the first pass of _cleanup_stale: old timestamps and empty keys go
Pruned(reqs, now) ==
    LET kept == [i \in 1..Len(reqs) |->
                    Entry(reqs[i].key, InWindow(reqs[i].timestamps, now))]
        NonEmpty(e) == e.timestamps # <<>> IN
    SelectSeq(kept, NonEmpty)

\* the second pass: list(keys)[:-max_entries] is deleted
EvictOldestKeys(reqs) ==
    IF Len(reqs) > max_entries /\ max_entries > 0
    THEN SubSeq(reqs, Len(reqs) - max_entries + 1, Len(reqs))
    ELSE reqs

\* slip: the surplus keys are evicted first, the stale ones pruned after
CleanupEvictFirst(reqs, now) ==
    IF Len(reqs) < cleanup_threshold
    THEN reqs
    ELSE Pruned(EvictOldestKeys(reqs), now)

cleanup_stale(reqs, now) ==
    IF Len(reqs) < cleanup_threshold
    THEN reqs
    ELSE EvictOldestKeys(Pruned(reqs, now))

\* is_allowed: (allowed, self._requests afterwards); reading a missing key
\* of the defaultdict leaves an empty entry behind
is_allowed(reqs, key, now) ==
    LET cleaned == cleanup_stale(reqs, now)
        timestamps == InWindow(TimestampsOf(cleaned, key), now)
        touched == IF HasKey(cleaned, key) THEN cleaned
                   ELSE Append(cleaned, Entry(key, <<>>)) IN
    IF Len(timestamps) >= requests_per_minute
    THEN [allowed |-> FALSE, requests |-> touched]
    ELSE [allowed |-> TRUE,
          requests |-> SetTimestamps(touched, key, Append(timestamps, now))]

RECURSIVE LimiterCalls(_, _)
LimiterCalls(log, keys) ==
    IF keys = {} THEN 0
    ELSE LET k == CHOOSE x \in keys : TRUE IN
         Len(log[k]) + LimiterCalls(log, keys \ {k})

\* get_remaining: (remaining, self._requests afterwards); nothing is cleaned
\* up, and reading a missing key of the defaultdict leaves an empty entry
get_remaining(reqs, key, now) ==
    LET timestamps == InWindow(TimestampsOf(reqs, key), now)
        left == requests_per_minute - Len(timestamps) IN
    [remaining |-> IF left < 0 THEN 0 ELSE left,
     requests |-> IF HasKey(reqs, key) THEN reqs
                  ELSE Append(reqs, Entry(key, <<>>))]

\* before: self._requests when the call began; at: the time of the call
LimiterOp(name, key, allowed, before, at) ==
    [name |-> name, key |-> key, allowed |-> allowed, before |-> before, at |-> at]

NoLimiterOp == LimiterOp("none", "", FALSE, <<>>, 0)

GetRemaining(key) ==
    LET r == get_remaining(requests, key, clock) IN
    /\ requests' = r.requests
    /\ limiter_op' = LimiterOp("get_remaining", key, r.remaining > 0, requests, clock)
    /\ UNCHANGED allowed_log
    /\ UNCHANGED <<keyVars, timeVars, guardVars, relayVars, workerVars, callVars,
                   fileVars, readVars, afterLimiterVars>>

IsAllowed(key) ==
    LET r == is_allowed(requests, key, clock) IN
    /\ LimiterCalls(allowed_log, LimiterKeys) < MaxLimiterCalls
    /\ requests' = r.requests
    /\ limiter_op' = LimiterOp("is_allowed", key, r.allowed, requests, clock)
    /\ allowed_log' = IF r.allowed
                      THEN [allowed_log EXCEPT ![key] = Append(@, clock)]
                      ELSE allowed_log
    /\ UNCHANGED <<keyVars, timeVars, guardVars, relayVars, workerVars, callVars,
                   fileVars, readVars, afterLimiterVars>>

NextLimiter ==
    \/ \E key \in LimiterKeys : IsAllowed(key)
    \/ \E key \in LimiterKeys : GetRemaining(key)
    \/ Tick

(***************************************************************************)
(* Discord webhook transport (beacon_skill/transports/discord.py):         *)
(* _send_payload, one step per pass of its retry loop.                     *)
(***************************************************************************)
StatusCodes == {200, 204, 404, 429, 500}
base_delay_ms == 1000

\* what session.post does: an HTTP response, or requests.RequestException
\* a delay a 429 response names, in milliseconds: in its Retry-After header
\* (a string) or in the retry_after field of its JSON body (a number)
Absent == [given |-> FALSE, numeric |-> FALSE, ms |-> 0]
Seconds(ms) == [given |-> TRUE, numeric |-> TRUE, ms |-> ms]
HttpDate == [given |-> TRUE, numeric |-> FALSE, ms |-> 0]

RetryAfterHeaders == {Absent, Seconds(0), Seconds(5000), Seconds(5000000), HttpDate}
RetryAfterBodies == {Absent, Seconds(2000)}

RateLimited(header, body) ==
    [kind |-> "http", status |-> 429, header |-> header, retry_after |-> body]

Response(kind, status) ==
    [kind |-> kind, status |-> status, header |-> Absent, retry_after |-> Absent]
NetworkError == Response("network", 0)
Responses ==
    {Response("http", s) : s \in StatusCodes} \cup {NetworkError}
    \cup {RateLimited(h, b) : h \in RetryAfterHeaders, b \in RetryAfterBodies}

\* DiscordRateLimitError.retry_after as _parse_response_error computes it:
\* the header if it is a non-empty string, else the body field if it is not
\* zero, else 1; 1.0 for what float() rejects; above 1000 s taken for
\* milliseconds; at least 0.1 s
retry_after_of(response) ==
    LET raw == IF response.header.given THEN response.header
               ELSE IF response.retry_after.given /\ response.retry_after.ms # 0
               THEN response.retry_after
               ELSE Seconds(1000)
        parsed == IF raw.numeric THEN raw.ms ELSE 1000
        seconds == IF parsed > 1000000 THEN parsed \div 1000 ELSE parsed IN
    IF seconds < 100 THEN 100 ELSE seconds

\* slip: the server's delay is ignored
CalculateBackoffJittered(attempt, retry_after) ==
    [ms |-> base_delay_ms * 2 ^ attempt, jitter |-> TRUE]

\* _calculate_backoff: the delay slept, in milliseconds; jitter tells that
\* the value is multiplied by a random factor in [0.5, 1.5)
calculate_backoff(attempt, retry_after) ==
    IF retry_after # 0
    THEN [ms |-> retry_after, jitter |-> FALSE]
    ELSE [ms |-> base_delay_ms * 2 ^ attempt, jitter |-> TRUE]

\* the delay slept after the exception raised for the response
DelayAfter(attempt, response) ==
    IF response.kind = "http" /\ response.status = 429
    THEN calculate_backoff(attempt, retry_after_of(response))
    ELSE calculate_backoff(attempt, 0)

\* slip: every 4xx is taken for a server error
ParseClientAsServerError(status) ==
    IF status >= 400 THEN "DiscordServerError" ELSE "DiscordError"

\* the class of the exception _parse_response_error returns
parse_response_error(status) ==
    IF 400 <= status /\ status < 500
    THEN IF status = 429 THEN "DiscordRateLimitError" ELSE "DiscordClientError"
    ELSE IF status >= 500 THEN "DiscordServerError"
    ELSE "DiscordError"

\* what _do raises for the response; "" when it returns
Raised(response) ==
    IF response.kind = "network" THEN "RequestException"
    ELSE IF response.status >= 400 THEN parse_response_error(response.status)
    ELSE ""

RetriedExceptions ==
    {"DiscordRateLimitError", "DiscordServerError", "RequestException"}

\* slip: the test for the last pass is off by one
LastAttemptOffByOne(attempt, max_retries) == attempt = max_retries

\* attempt == self.max_retries - 1
LastAttempt(attempt, max_retries) == attempt = max_retries - 1

NoDelay == [ms |-> 0, jitter |-> FALSE]
PostEvent(response) == [ev |-> "post", resp |-> response, delay |-> NoDelay]
SleepEvent(delay) == [ev |-> "sleep", resp |-> NetworkError, delay |-> delay]

NoError == [type |-> "", status_code |-> 0, message |-> ""]
ClientError(status) ==
    [type |-> "DiscordClientError", status_code |-> status, message |-> "HTTP"]
FailedAfter(max_retries) ==
    [type |-> "DiscordError", status_code |-> max_retries,
     message |-> "Failed after N attempts"]
UrlRequired ==
    [type |-> "DiscordError", status_code |-> 0,
     message |-> "Discord webhook_url required"]

NoSend ==
    [pc |-> "idle", max_retries |-> 0, dry_run |-> FALSE, attempt |-> 0,
     trail |-> <<>>, status |-> 0, error |-> NoError]

\* _send_payload up to its loop; range(max_retries) is empty for 0
SendPayload(max_retries, dry_run, url_set) ==
    /\ send.pc # "attempting"
    /\ send' =
          LET s == [NoSend EXCEPT !.max_retries = max_retries, !.dry_run = dry_run] IN
          IF ~url_set THEN [s EXCEPT !.pc = "raised", !.error = UrlRequired]
          ELSE IF max_retries <= 0
          THEN [s EXCEPT !.pc = "raised", !.error = FailedAfter(max_retries)]
          ELSE [s EXCEPT !.pc = "attempting"]
    /\ UNCHANGED <<keyVars, timeVars, guardVars, relayVars, workerVars, callVars,
                   fileVars, readVars, limiterVars, afterSendVars>>

\* the rest of a pass after a retried exception: break on the last attempt,
\* else sleep; the loop ends when range(max_retries) is used up
AfterFailure(s, response) ==
    IF LastAttempt(s.attempt, s.max_retries)
    THEN [s EXCEPT !.pc = "raised", !.error = FailedAfter(s.max_retries)]
    ELSE LET slept == [s EXCEPT !.trail = Append(@, SleepEvent(
                                               DelayAfter(s.attempt, response))),
                                !.attempt = @ + 1] IN
         IF slept.attempt < s.max_retries THEN slept
         ELSE [slept EXCEPT !.pc = "raised", !.error = FailedAfter(s.max_retries)]

\* one pass of the loop: _do, then the except clauses
send_attempt(s, response) ==
    IF s.dry_run
    THEN [s EXCEPT !.pc = "returned", !.status = 200]
    ELSE LET posted == [s EXCEPT !.trail = Append(@, PostEvent(response))]
             exc == Raised(response) IN
         IF exc = ""
         THEN [posted EXCEPT !.pc = "returned", !.status = response.status]
         ELSE IF exc \in RetriedExceptions
         THEN AfterFailure(posted, response)
         ELSE IF exc = "DiscordClientError"
         THEN [posted EXCEPT !.pc = "raised", !.error = ClientError(response.status)]
         ELSE [posted EXCEPT !.pc = "raised",
                             !.error = [type |-> exc, status_code |-> response.status,
                                        message |-> "HTTP"]]

SendAttempt(response) ==
    /\ send.pc = "attempting"
    /\ send' = send_attempt(send, response)
    /\ UNCHANGED <<keyVars, timeVars, guardVars, relayVars, workerVars, callVars,
                   fileVars, readVars, limiterVars, afterSendVars>>

NextSend ==
    \/ \E m \in 0..MaxRetries, dry_run \in BOOLEAN, url_set \in BOOLEAN :
          SendPayload(m, dry_run, url_set)
    \/ \E response \in Responses : SendAttempt(response)

(***************************************************************************)
(* Discord listener (beacon_skill/transports/discord.py): _poll_events on  *)
(* an append-only JSONL file.  Offsets count lines; an event is named by   *)
(* the number of its line.                                                 *)
(***************************************************************************)
max_backlog == 2

EventIds == {"evt-1", "evt-2"}

\* a line of the file: a JSON object with or without id, or anything else
Line(wellformed, id) == [wellformed |-> wellformed, id |-> id]
Lines == {Line(TRUE, id) : id \in EventIds \cup {""}} \cup {Line(FALSE, "")}

PollState(events, file_offset, last_event_id, raised) ==
    [events |-> events, file_offset |-> file_offset,
     last_event_id |-> last_event_id, raised |-> raised]

\* f.tell() after break: the file is iterated in text mode, and tell() is
\* disabled while the iteration is not exhausted; OSError leaves
\* _poll_events with _file_offset as it was
tell_after_break(p, i) == PollState(<<>>, p.file_offset, p.last_event_id, TRUE)

\* the loop of _poll_events from line i on, then f.tell()
RECURSIVE poll_from(_, _, _)
poll_from(file, i, p) ==
    IF i > Len(file)
    THEN PollState(p.events, Len(file), p.last_event_id, FALSE)
    ELSE IF ~file[i].wellformed
    THEN poll_from(file, i + 1, p)
    ELSE IF p.last_event_id # "" /\ file[i].id # "" /\ file[i].id = p.last_event_id
    THEN poll_from(file, i + 1, p)
    ELSE LET q == [p EXCEPT !.events = Append(@, i),
                            !.last_event_id = IF file[i].id # "" THEN file[i].id
                                              ELSE @] IN
         IF Len(q.events) >= max_backlog
         THEN tell_after_break(q, i)
         ELSE poll_from(file, i + 1, q)

poll_events(file, file_offset, last_event_id) ==
    poll_from(file, file_offset + 1, PollState(<<>>, file_offset, last_event_id, FALSE))

NoListener ==
    [file |-> <<>>, file_offset |-> 0, last_event_id |-> "",
     delivered |-> [i \in 1..MaxLines |-> 0], returned |-> <<>>, raised |-> FALSE,
     polled |-> FALSE]

\* a writer appends a line to the event source file
AppendLine(line) ==
    /\ Len(listener.file) < MaxLines
    /\ listener' = [listener EXCEPT !.file = Append(@, line), !.polled = FALSE]
    /\ UNCHANGED <<keyVars, timeVars, guardVars, relayVars, workerVars, callVars,
                   fileVars, readVars, limiterVars, sendVars, afterListenerVars>>

PollEvents ==
    LET p == poll_events(listener.file, listener.file_offset, listener.last_event_id) IN
    /\ listener' =
          [listener EXCEPT
              !.file_offset = p.file_offset,
              !.last_event_id = p.last_event_id,
              !.returned = p.events,
              !.raised = p.raised,
              !.polled = TRUE,
              !.delivered = [i \in 1..MaxLines |->
                                IF \E j \in 1..Len(p.events) : p.events[j] = i
                                THEN IF @[i] < 2 THEN @[i] + 1 ELSE @[i]
                                ELSE @[i]]]
    /\ UNCHANGED <<keyVars, timeVars, guardVars, relayVars, workerVars, callVars,
                   fileVars, readVars, limiterVars, sendVars, afterListenerVars>>

NextListener ==
    \/ \E line \in Lines : AppendLine(line)
    \/ PollEvents

(***************************************************************************)
(* read_inbox with its filters (beacon_skill/inbox.py): every envelope is  *)
(* learned from, then kind, agent_id, since and unread_only decide whether *)
(* it is returned, and limit keeps the last entries.                       *)
(***************************************************************************)
InboxEntry(env, kind, received_at, nonce) ==
    [env |-> env, kind |-> kind, received_at |-> received_at, nonce |-> nonce]

\* inbox.jsonl lines: two first sightings and a rotation proof
InboxEntries ==
    {InboxEntry(Envelope("bcn_a1", "k1", NoSig), "hello", 1000, "n1"),
     InboxEntry(Envelope("bcn_a2", "k2", NoSig), "want", 1001, "n2"),
     InboxEntry(Envelope("bcn_a1", "k1", Sig("k2", "k1")), "hello", 1001, "")}

FilterInboxes == SeqsUpTo(InboxEntries, MaxEntries)

\* kind, agent_id, since, unread_only, limit; "" and 0 are "no filter"
Filters ==
    [kind : {"", "hello"}, agent_id : {"", "bcn_a1"}, since : {0, 1001},
     unread_only : BOOLEAN, limit : {0, 1}]

NoFilters ==
    [kind |-> "", agent_id |-> "", since |-> 0, unread_only |-> FALSE, limit |-> 0]

\* the four filter tests of the loop: the entry is appended to the results
PassesFilters(f, entry, nonces) ==
    /\ ~(f.kind # "" /\ entry.kind # f.kind)
    /\ ~(f.agent_id # "" /\ entry.env.agent_id # f.agent_id)
    /\ ~(f.since # 0 /\ entry.received_at < f.since)
    /\ ~(f.unread_only /\ is_read(nonces, entry.nonce))

\* results[-limit:] when a limit is given
LastEntries(results, limit) ==
    IF limit = 0 \/ Len(results) <= limit THEN results
    ELSE SubSeq(results, Len(results) - limit + 1, Len(results))

\* the loop from entry i on: learn from the envelope, then filter it
RECURSIVE FilteredScanFrom(_, _, _, _, _, _, _, _)
FilteredScanFrom(entries, i, mem, disk, results, f, nonces, now) ==
    IF i > Len(entries)
    THEN [keys |-> mem, raised |-> FALSE, results |-> results]
    ELSE LET r == learn_key_from_envelope(entries[i].env, mem, disk, now) IN
         IF r.raised
         THEN [keys |-> r.disk, raised |-> TRUE, results |-> <<>>]
         ELSE FilteredScanFrom(entries, i + 1, r.mem, r.disk,
                               IF PassesFilters(f, entries[i], nonces)
                               THEN Append(results, entries[i]) ELSE results,
                               f, nonces, now)

\* slip: the filters are applied to the lines before the loop learns from them
ReadInboxFilterFirst(keys, nonces, entries, f, now) ==
    LET Passing(e) == PassesFilters(f, e, nonces)
        r == FilteredScanFrom(SelectSeq(entries, Passing), 1, keys, keys, <<>>,
                              f, nonces, now) IN
    [keys |-> r.keys, raised |-> r.raised, read_nonces |-> nonces,
     results |-> LastEntries(r.results, f.limit)]

\* read_inbox(kind, agent_id, since, unread_only, limit): the persisted
\* keys and read nonces once it has returned or raised, and what it returns
read_inbox_filtered(keys, nonces, entries, f, now) ==
    LET r == FilteredScanFrom(entries, 1, keys, keys, <<>>, f, nonces, now) IN
    [keys |-> r.keys, raised |-> r.raised, read_nonces |-> nonces,
     results |-> LastEntries(r.results, f.limit)]

ReadFiltered(entries, f) ==
    LET r == read_inbox_filtered(known_keys, read_nonces, entries, f, clock) IN
    /\ RotationsWithin(r.keys)
    /\ known_keys' = r.keys
    /\ op' = [OpRecord("read_inbox", ~r.raised)
                 EXCEPT !.learned = DOMAIN r.keys \ DOMAIN known_keys,
                        !.results = Len(r.results)]
    /\ UNCHANGED <<timeVars, guardVars, relayVars, workerVars, callVars,
                   fileVars, mark_log, afterReadVars>>
    /\ read_nonces' = r.read_nonces

\* the store is filled by trust_key and an entry is marked read, then
\* the inbox is read
NextFilter ==
    \/ \E k \in Keys : TrustKey("bcn_a1", k, FALSE)
    \/ /\ mark_log = <<>>
       /\ \E n \in Nonces : MarkRead(n)
    \/ \E entries \in FilterInboxes, f \in Filters : ReadFiltered(entries, f)

(***************************************************************************)
(* TokenBucketRateLimiter (tests/test_rate_limiter.py).                    *)
(***************************************************************************)
\* Tokens are counted in units of 1/TokenScale token, so that a bucket can
\* hold a fraction of a token; refill_rate is in units per second.
TokenScale == 2
capacity == 2
refill_rate == 1

BucketIps == {"10.0.0.1", "10.0.0.2"}

Bucket(tokens, last_refill) == [tokens |-> tokens, last_refill |-> last_refill]

NoBuckets == [ip \in {} |-> Bucket(0, 0)]

\* slip: the refilled bucket is not cut to its capacity
RefillUncapped(tokens, last_refill, now) ==
    Bucket(tokens + (now - last_refill) * refill_rate, now)

\* _refill: min(tokens + elapsed * refill_rate, capacity), now
refill(tokens, last_refill, now) ==
    LET new_tokens == tokens + (now - last_refill) * refill_rate IN
    Bucket(IF new_tokens < capacity * TokenScale THEN new_tokens
           ELSE capacity * TokenScale, now)

\* allow(ip): (allowed, wait) and self._buckets afterwards; wait is
\* (1.0 - tokens) / refill_rate, in seconds, 0 standing for None
allow(bkts, ip, now) ==
    LET b == IF ip \in DOMAIN bkts
             THEN refill(bkts[ip].tokens, bkts[ip].last_refill, now)
             ELSE Bucket(capacity * TokenScale, now) IN
    IF b.tokens >= TokenScale
    THEN [allowed |-> TRUE, wait |-> 0,
          buckets |-> Put(bkts, ip, Bucket(b.tokens - TokenScale, b.last_refill))]
    ELSE [allowed |-> FALSE, wait |-> (TokenScale - b.tokens) \div refill_rate,
          buckets |-> Put(bkts, ip, b)]

BucketOp(ip, allowed, wait, before, at) ==
    [ip |-> ip, allowed |-> allowed, wait |-> wait, before |-> before, at |-> at]

NoBucketOp == BucketOp("", FALSE, 0, NoBuckets, 0)

Allow(ip) ==
    LET r == allow(buckets, ip, clock) IN
    /\ buckets' = r.buckets
    /\ bucket_op' = BucketOp(ip, r.allowed, r.wait, buckets, clock)
    /\ UNCHANGED <<keyVars, timeVars, guardVars, relayVars, workerVars, callVars,
                   fileVars, readVars, limiterVars, sendVars, listenerVars,
                   replayVars, scanVars>>

\* idle periods: a second, and the time an empty bucket takes to fill
IdlePeriods == {1, (capacity * TokenScale) \div refill_rate}

BucketIdle(d) ==
    /\ ticks < MaxClockSteps
    /\ clock' = clock + d
    /\ ticks' = ticks + 1
    /\ UNCHANGED <<keyVars, guardVars, relayVars, workerVars, callVars, restVars>>

NextBuckets ==
    \/ \E ip \in BucketIps : Allow(ip)
    \/ \E d \in IdlePeriods : BucketIdle(d)

(***************************************************************************)
(* The replay guard over time: every admitted nonce is kept with the time  *)
(* it was first admitted (NonceWindowEntry), an entry may be evicted once  *)
(* it has been retained longer than the freshness window, and an envelope  *)
(* keeps its nonce and ts however often it is presented.                   *)
(***************************************************************************)
\* the ts values envelopes carry: the start, just after it, one window later
Stamps == {0, 1, NONCE_WINDOW_S}

ReplayEnvelopes == [nonce : Nonces, ts : Stamps]

NonceWindowEntry(nonce, now) == [nonce |-> nonce, at |-> now]

Retained(entries) == {e.nonce : e \in entries}

\* eviction is permitted beyond the freshness window only
Evictable(e, now) == now - e.at > NONCE_WINDOW_S

\* check(envelope) on a guard that keeps the admission time of each nonce
check_envelope(entries, env, now) ==
    LET r == check_envelope_window(Retained(entries), env, now) IN
    [entries |-> IF r.ok THEN entries \cup {NonceWindowEntry(env.nonce, now)}
                 ELSE entries,
     ok |-> r.ok, reason |-> r.reason]

NoReplay ==
    [entries |-> {}, admitted |-> {},
     last |-> [env |-> [nonce |-> "", ts |-> 0], ok |-> FALSE, reason |-> "",
               again |-> FALSE, retained |-> FALSE]]

\* an envelope is presented to the guard
CheckEnvelope(env) ==
    LET r == check_envelope(replay.entries, env, clock) IN
    /\ replay' =
          [entries |-> r.entries,
           admitted |-> IF r.ok THEN replay.admitted \cup {env} ELSE replay.admitted,
           last |-> [env |-> env, ok |-> r.ok, reason |-> r.reason,
                     again |-> env \in replay.admitted,
                     retained |-> env.nonce \in Retained(replay.entries)]]
    /\ UNCHANGED <<keyVars, timeVars, guardVars, relayVars, workerVars, callVars,
                   fileVars, readVars, limiterVars, sendVars, listenerVars,
                   afterReplayVars>>

\* the guard drops an entry it has retained longer than the window
EvictNonce(e) ==
    /\ e \in replay.entries
    /\ Evictable(e, clock)
    /\ replay' = [replay EXCEPT !.entries = @ \ {e}]
    /\ UNCHANGED <<keyVars, timeVars, guardVars, relayVars, workerVars, callVars,
                   fileVars, readVars, limiterVars, sendVars, listenerVars,
                   afterReplayVars>>

ReplayClockSteps == {1, NONCE_WINDOW_S + 1}

\* the guard's clock advances
ReplayAdvance(d) ==
    /\ ticks < MaxClockSteps
    /\ clock' = clock + d
    /\ ticks' = ticks + 1
    /\ UNCHANGED <<keyVars, guardVars, relayVars, workerVars, callVars, restVars>>

NextReplay ==
    \/ \E env \in ReplayEnvelopes : CheckEnvelope(env)
    \/ \E e \in replay.entries : EvictNonce(e)
    \/ \E d \in ReplayClockSteps : ReplayAdvance(d)

(***************************************************************************)
(* The key file as load_known_keys finds it (beacon_skill/inbox.py).       *)
(* file_damage "none": the file holds the mapping known_keys (or does not  *)
(* exist while known_keys is empty); "deleted": removed; "unreadable":     *)
(* read_text raises; "not_json": the text is no JSON; "not_mapping": the   *)
(* text is JSON but a list, not an object.                                 *)
(***************************************************************************)
FileDamages == {"deleted", "unreadable", "not_json", "not_mapping"}

\* is_mapping FALSE: json.loads returned a list, which is passed on
load_known_keys(damage, keys) ==
    IF damage = "none"
    THEN [is_mapping |-> TRUE, keys |-> keys]
    ELSE IF damage = "not_mapping"
    THEN [is_mapping |-> FALSE, keys |-> Only(keys, {})]
    ELSE [is_mapping |-> TRUE, keys |-> Only(keys, {})]

\* the calls of the key-store interface: list_keys carries show_expired in
\* allow_rotate, read_inbox scans an inbox of the one envelope given
FileCalls ==
    KeyCalls
    \cup {KeyCall("list_keys", "", "", show_expired, NoSig) :
            show_expired \in BOOLEAN}
    \cup {KeyCall("read_inbox", e.agent_id, e.pubkey, FALSE, e.sig) :
            e \in {x \in Envelopes : IsHex(x.pubkey) /\ x.sig # BadHexSig}}

FileResult(damage, keys, ret, listed, raised) ==
    [damage |-> damage, keys |-> keys, ret |-> ret, listed |-> listed,
     raised |-> raised]

\* the call on a loaded list: "in" and the return of the list work, item
\* assignment and .items() raise
CallOnList(damage, keys, c) ==
    CASE c.name = "trust_key" -> FileResult(damage, keys, FALSE, <<>>, TRUE)
      [] c.name = "revoke_key" -> FileResult(damage, keys, FALSE, <<>>, FALSE)
      [] c.name = "rotate_key" -> FileResult(damage, keys, FALSE, <<>>, FALSE)
      [] c.name = "list_keys" ->
            FileResult(damage, keys, FALSE, <<>>, ~c.allow_rotate)
      [] c.name = "read_inbox" -> FileResult(damage, keys, FALSE, <<>>, TRUE)

\* the call on a loaded mapping; a save replaces whatever the file held
CallOnMapping(damage, keys, loaded, c, now) ==
    CASE c.name \in {"trust_key", "revoke_key", "rotate_key"} ->
            LET r == ApplyCall(loaded, c, now) IN
            IF r.ret THEN FileResult("none", r.keys, TRUE, <<>>, FALSE)
            ELSE FileResult(damage, keys, FALSE, <<>>, FALSE)
      [] c.name = "list_keys" ->
            FileResult(damage, keys, TRUE,
                       list_keys(loaded, c.allow_rotate, now), FALSE)
      [] c.name = "read_inbox" ->
            LET r == read_inbox(loaded,
                                <<Envelope(c.agent_id, c.pubkey_hex, c.sig)>>, now) IN
            FileResult("none", r.keys, TRUE, <<>>, FALSE)

file_call(damage, keys, c, now) ==
    LET l == load_known_keys(damage, keys) IN
    IF l.is_mapping
    THEN CallOnMapping(damage, keys, l.keys, c, now)
    ELSE CallOnList(damage, keys, c)

FileCall(c) ==
    LET r == file_call(file_damage, known_keys, c, clock) IN
    /\ RotationsWithin(r.keys)
    /\ known_keys' = r.keys
    /\ file_damage' = r.damage
    /\ op' = [OpRecord(c.name, r.ret) EXCEPT !.listed = r.listed]
    /\ UNCHANGED <<timeVars, guardVars, relayVars, workerVars, callVars, afterFileVars>>

\* the file is removed, made unreadable or overwritten; its mapping is gone
FileDamaged(d) ==
    /\ file_damage = "none"
    /\ file_damage' = d
    /\ known_keys' = Only(known_keys, {})
    /\ UNCHANGED <<op, timeVars, guardVars, relayVars, workerVars, callVars, afterFileVars>>

NextFile ==
    \/ \E c \in FileCalls : FileCall(c)
    \/ \E d \in FileDamages : FileDamaged(d)

Init ==
    /\ known_keys = [a \in {} |-> NewKeyRecord("", 0)]
    /\ clock = 0
    /\ ticks = 0
    /\ op = NoOp
    /\ nonce_cache = {}
    /\ gpc = [t \in Threads |-> "idle"]
    /\ genv = [t \in Threads |-> [nonce |-> "", ts |-> 0]]
    /\ gres = [t \in Threads |-> [ok |-> FALSE, reason |-> ""]]
    /\ relay_agents = [a \in {} |-> NewRelayAgent(NoRequest, 0, NoToken)]
    /\ next_token = 1
    /\ resp = NoExchange
    /\ history = [a \in {} |-> NoHistory]
    /\ workers = [t \in Workers |-> IdleWorker]
    /\ calls = NoCalls
    /\ file_damage = "none"
    /\ read_nonces = {}
    /\ mark_log = <<>>
    /\ send = NoSend
    /\ listener = NoListener
    /\ replay = NoReplay
    /\ scan = NoScan
    /\ buckets = NoBuckets
    /\ bucket_op = NoBucketOp
    /\ requests = <<>>
    /\ limiter_op = NoLimiterOp
    /\ allowed_log = [k \in LimiterKeys |-> <<>>]

RotateSigInputs == RotationSigs \cup {BadHexSig}

RotateKeyInputs == Keys \cup {BadHex}

NextKeys ==
    \/ \E a \in AgentIds, k \in TrustInputs, r \in BOOLEAN : TrustKey(a, k, r)
    \/ \E a \in AgentIds : RevokeKey(a)
    \/ \E a \in AgentIds, k \in RotateKeyInputs, s \in RotateSigInputs :
          RotateKey(a, k, s)
    \/ Tick

SpecKeys == Init /\ [][NextKeys]_vars

SpecGuard == Init /\ [][NextGuard]_vars

SpecInbox == Init /\ [][NextInbox]_vars

SpecRelay == Init /\ [][NextRelay]_vars

SpecRace == Init /\ [][NextRace]_vars

SpecCalls == Init /\ [][NextCalls]_vars

SpecExpiry == Init /\ [][NextExpiry]_vars

SpecFile == Init /\ [][NextFile]_vars

SpecRead == Init /\ [][NextRead]_vars

SpecLimiter == Init /\ [][NextLimiter]_vars

SpecSend == Init /\ [][NextSend]_vars

SpecListener == Init /\ [][NextListener]_vars

SpecReplay == Init /\ [][NextReplay]_vars

SpecScan == Init /\ [][NextScan]_vars

SpecStamps == Init /\ [][NextStamps]_vars

SpecFilter == Init /\ [][NextFilter]_vars

SpecBuckets == Init /\ [][NextBuckets]_vars

(***************************************************************************)
(* Properties.                                                             *)
(***************************************************************************)
FreshDone(n) ==
    {t \in Threads : gpc[t] = "done" /\ genv[t].nonce = n /\ ~IsStale(genv[t].ts, clock)}

\* C1: among the completed check_envelope_window calls that carried one
\* nonce with a fresh ts, whatever the interleaving, exactly one returned
\* ok = TRUE and every other returned ok = FALSE with reason "replay".
C1_AdmitOnce ==
    \A n \in Nonces :
        /\ FreshDone(n) # {} => Cardinality({t \in FreshDone(n) : gres[t].ok}) = 1
        /\ \A t \in FreshDone(n) : ~gres[t].ok => gres[t].reason = "replay"

\* every thread has raced on the same fresh nonce and all have returned
C1_Witness ==
    \E n \in Nonces :
        /\ FreshDone(n) = Threads
        /\ \E t \in Threads : gres[t].reason = "replay"

\* C2: in every reachable store, trust_key(agent_id, B, allow_rotate =
\* FALSE) on an agent that has a record never changes the key stored for
\* it, and when the stored key differs from B it returns FALSE and leaves
\* the whole store (every field of every record) unchanged.
C2_AntiImpersonation ==
    \A a \in DOMAIN known_keys, k \in TrustInputs :
        LET r == trust_key(known_keys, a, k, FALSE, clock) IN
        /\ a \in DOMAIN r.keys
        /\ r.keys[a].pubkey_hex = known_keys[a].pubkey_hex
        /\ known_keys[a].pubkey_hex # k => (~r.ret /\ r.keys = known_keys)

\* a refused trust_key call, made after the clock moved past a record's
\* last_seen
C2_Witness ==
    /\ op.name = "trust_key"
    /\ ~op.ret
    /\ \E a \in DOMAIN known_keys : known_keys[a].last_seen < clock

RotationRefusedCase(a, k, s) ==
    \/ a \notin DOMAIN known_keys
    \/ known_keys[a].pubkey_hex = ""
    \/ ~IsHex(k)
    \/ ~Verify(known_keys[a].pubkey_hex, s, k)

\* C3: in every reachable store, rotate_key returns FALSE and leaves the
\* store unchanged when the agent has no record, the stored key is empty,
\* the new key is not hex or the signature does not verify under the
\* stored key over the new key.
C3_RotateRefusal ==
    \A a \in AgentIds, k \in RotateKeyInputs, s \in RotateSigInputs :
        RotationRefusedCase(a, k, s) =>
            LET r == rotate_key(known_keys, a, k, s, clock) IN
            ~r.ret /\ r.keys = known_keys

\* a rotate_key call was refused while one agent has a record with a
\* usable key and another a record with an empty key
C3_Witness ==
    /\ op.name = "rotate_key"
    /\ ~op.ret
    /\ \E a \in DOMAIN known_keys : known_keys[a].pubkey_hex \in Keys
    /\ \E a \in DOMAIN known_keys : known_keys[a].pubkey_hex = ""

RotationVerifies(a, k, s) ==
    /\ a \in DOMAIN known_keys
    /\ Verify(known_keys[a].pubkey_hex, s, k)

RotationInstalled(keys, a, k) ==
    /\ keys[a].pubkey_hex = k
    /\ Contains(keys[a].previous_keys, known_keys[a].pubkey_hex)
    /\ keys[a].rotation_count = known_keys[a].rotation_count + 1

\* C4 as stated: rotate_key returns TRUE iff the signature verifies under
\* the stored key, and after every call that returned TRUE the new key is
\* installed, previous_keys holds the old key and rotation_count grew by 1.
C4_AsStated ==
    [][\A a \in AgentIds, k \in RotateKeyInputs, s \in RotateSigInputs :
          RotateKey(a, k, s) =>
              /\ op'.ret <=> RotationVerifies(a, k, s)
              /\ op'.ret => RotationInstalled(known_keys', a, k)]_vars

\* C4 amended: the same, with the installation required only when the new
\* key differs from the stored one; a verified call that names the stored
\* key returns TRUE and changes nothing but last_seen.
C4_RotateSuccess ==
    \A a \in AgentIds, k \in RotateKeyInputs, s \in RotateSigInputs :
        LET r == rotate_key(known_keys, a, k, s, clock) IN
        /\ r.ret <=> RotationVerifies(a, k, s)
        /\ (r.ret /\ k # known_keys[a].pubkey_hex) => RotationInstalled(r.keys, a, k)
        /\ (r.ret /\ k = known_keys[a].pubkey_hex) =>
              r.keys = Put(known_keys, a, [known_keys[a] EXCEPT !.last_seen = clock])

\* a rotation succeeded on a record that had been rotated before
C4_Witness ==
    /\ op.name = "rotate_key"
    /\ op.ret
    /\ \E a \in DOMAIN known_keys :
          /\ known_keys[a].rotation_count = 2
          /\ Len(known_keys[a].previous_keys) = 2
SameTrustedKey(keys, a) ==
    /\ a \in DOMAIN keys
    /\ keys[a].pubkey_hex = known_keys[a].pubkey_hex
    /\ keys[a].rotation_count = known_keys[a].rotation_count
    /\ keys[a].previous_keys = known_keys[a].previous_keys

\* C5 as stated: whenever a scan holds an envelope with a differing key and
\* no valid rotation proof, the record of its agent_id has the same
\* pubkey_hex, rotation_count and previous_keys after the scan.
C5_AsStated ==
    [][\A inbox \in Inboxes, a \in DOMAIN known_keys :
          (/\ ReadInbox(inbox)
           /\ \E i \in 1..Len(inbox) : UnprovenKeyChange(known_keys, inbox[i], a))
          => SameTrustedKey(known_keys', a)]_vars

\* C5 restricted: the same holds of every scan none of whose envelopes
\* carries a valid rotation proof for that agent_id, whether or not the scan
\* raises.
C5_NoSilentOverwrite ==
    \A inbox \in Inboxes, a \in DOMAIN known_keys :
        (/\ \E i \in 1..Len(inbox) : UnprovenKeyChange(known_keys, inbox[i], a)
         /\ \A i \in 1..Len(inbox) :
               inbox[i].agent_id = a =>
                   ~RotationProofOk(known_keys[a].pubkey_hex, inbox[i].pubkey,
                                    inbox[i].sig))
        => SameTrustedKey(read_inbox(known_keys, inbox, clock).keys, a)

\* a scan that met such an envelope has returned, and the store holds a
\* record whose key does not derive to its agent_id (the deriving key,
\* embedded in an envelope, differs from it)
C5_Witness ==
    /\ op.name = "read_inbox"
    /\ op.ret
    /\ op.unproven
    /\ \E a \in DOMAIN known_keys :
          /\ known_keys[a].pubkey_hex \in Keys
          /\ AgentIdFromPubkey(known_keys[a].pubkey_hex) # a

(***************************************************************************)
(* Relay properties, stated of the exchange the client has not read yet:   *)
(* request, its response, and the relay's table before and after.          *)
(***************************************************************************)
WasUnknown == resp.pending /\ resp.req.agent_id \notin DOMAIN resp.agents
WasKnown == resp.pending /\ resp.req.agent_id \in DOMAIN resp.agents
TableUnchanged ==
    relay_agents = resp.agents /\ next_token = resp.next_token
Derives(req) == AgentIdFromPubkey(req.pubkey_hex) = req.agent_id
SigVerifies(req) == Verify(req.pubkey_hex, req.signature, req.agent_id)

Unsigned(req) == req.pubkey_hex = "" \/ req.signature = NoSig

\* C7 as stated: a ping for an unknown agent_id is answered 201 and creates a
\* record only if it carries pubkey_hex and a signature verifying under it; a
\* missing pubkey_hex or signature yields 400, a failing signature 403, and
\* in those cases no record is created and no token issued.
C7_AsStated ==
    WasUnknown =>
        /\ resp.status = 201 => ~Unsigned(resp.req) /\ SigVerifies(resp.req)
        /\ Unsigned(resp.req) => resp.status = 400
        /\ ~Unsigned(resp.req) /\ ~SigVerifies(resp.req) => resp.status = 403
        /\ Unsigned(resp.req) \/ ~SigVerifies(resp.req) => TableUnchanged

\* C7 amended: as stated, except that a failing signature yields 403 only
\* when the pubkey_hex is bound to the agent_id (it derives to it, or the
\* agent_id is not bcn_-prefixed), and 400 "agent_id does not match pubkey"
\* otherwise; a record is created only by a 201.
C7_SignedRegistration ==
    WasUnknown =>
        /\ resp.status = 201 => ~Unsigned(resp.req) /\ SigVerifies(resp.req)
        /\ Unsigned(resp.req) => resp.status = 400
        /\ ~Unsigned(resp.req) /\ ~SigVerifies(resp.req) =>
              resp.status =
                  IF IdentityBound(resp.req.agent_id, resp.req.pubkey_hex)
                  THEN 403 ELSE 400
        /\ Unsigned(resp.req) \/ ~SigVerifies(resp.req) => TableUnchanged
        /\ resp.status # 201 => TableUnchanged

\* a registration with a bound pubkey_hex and a failing signature has been
\* refused with 403
C7_Witness ==
    /\ WasUnknown /\ ~Unsigned(resp.req) /\ ~SigVerifies(resp.req)
    /\ resp.status = 403 /\ resp.error = "Invalid Ed25519 signature"
    /\ TableUnchanged

Accepted == resp.status \in {200, 201}

\* C8: a nonce accepted once for an agent_id is never accepted again for that
\* agent_id, also after other nonces were accepted in between: a later ping
\* carrying it is not answered 200/201 and leaves the record as it was.
C8_NonceSingleUse ==
    resp.pending /\ resp.req.nonce \in resp.log.accepted
        => ~Accepted /\ TableUnchanged

Authenticated ==
    /\ WasKnown
    /\ HeartbeatAuth(resp.agents[resp.req.agent_id], resp.req, clock) = Passed

\* C9: after a registration that carried nonce N, every later authenticated
\* ping for the same agent_id carrying N is answered 409 and changes neither
\* beat_count nor the token.
C9_RegistrationNonceReserved ==
    Authenticated /\ resp.req.nonce # ""
                  /\ resp.req.nonce = resp.log.registered
        => resp.status = 409 /\ TableUnchanged

TokenWrongOrExpired(req) ==
    /\ req.relay_token # NoToken
    /\ \/ req.relay_token # resp.agents[req.agent_id].relay_token
       \/ clock > resp.agents[req.agent_id].token_expires

\* C10 as stated: a ping for an existing agent_id without relay_token is
\* answered 401, one with a wrong or expired relay_token 403, and the record
\* is unchanged in both cases.
C10_AsStated ==
    WasKnown =>
        /\ resp.req.relay_token = NoToken
              => resp.status = 401 /\ TableUnchanged
        /\ TokenWrongOrExpired(resp.req)
              => resp.status = 403 /\ TableUnchanged

\* C10 amended: a ping for an existing agent_id that carries no signature is
\* answered 401 without relay_token and 403 with a wrong or expired one, and
\* the record is unchanged in both cases.
C10_CredentialCheck ==
    WasKnown /\ resp.req.signature = NoSig =>
        /\ resp.req.relay_token = NoToken
              => resp.status = 401 /\ TableUnchanged
        /\ TokenWrongOrExpired(resp.req)
              => resp.status = 403 /\ TableUnchanged

\* an unsigned heartbeat presenting the issued token after its expiry has
\* been refused
C10_Witness ==
    /\ WasKnown /\ resp.req.signature = NoSig
    /\ resp.req.relay_token = resp.agents[resp.req.agent_id].relay_token
    /\ clock > resp.agents[resp.req.agent_id].token_expires
    /\ resp.status = 403 /\ TableUnchanged

Stored == resp.agents[resp.req.agent_id]

SignatureFails ==
    /\ WasKnown
    /\ Stored.pubkey_hex # ""
    /\ resp.req.signature # NoSig
    /\ ~Verify(Stored.pubkey_hex, resp.req.signature, resp.req.agent_id)

\* C11: a heartbeat for an existing agent with a pubkey on file whose
\* signature fails verification is answered "Invalid signature" (401, never
\* 200) and leaves the record unchanged, whatever relay_token it presents.
C11_FailingSignatureRejected ==
    SignatureFails =>
        /\ resp.status = 401
        /\ resp.error = "Invalid signature"
        /\ TableUnchanged

\* a heartbeat with the valid, unexpired relay_token and a failing signature
\* has been refused
C11_Witness ==
    /\ SignatureFails
    /\ resp.req.relay_token = Stored.relay_token
    /\ clock <= Stored.token_expires
    /\ resp.status = 401

BeatCountOf(agents) == agents[resp.req.agent_id].beat_count

\* C12: a record's beat_count is 1 (its value at registration) plus the
\* number of pings for the agent answered 200; a ping answered 200 raises it
\* by exactly 1 and returns the new value; a rejected ping leaves it alone.
C12_BeatCountAccounting ==
    /\ \A a \in DOMAIN relay_agents :
          relay_agents[a].beat_count = 1 + history[a].answered200
    /\ WasKnown =>
          IF resp.status = 200
          THEN /\ BeatCountOf(relay_agents) = BeatCountOf(resp.agents) + 1
               /\ resp.beat_count = BeatCountOf(relay_agents)
          ELSE BeatCountOf(relay_agents) = BeatCountOf(resp.agents)

\* a second heartbeat has been answered 200 and returned beat_count 3
C12_Witness ==
    /\ WasKnown /\ resp.status = 200
    /\ BeatCountOf(resp.agents) = 2
    /\ resp.beat_count = 3

SameToken(before, after) ==
    /\ after.relay_token = before.relay_token
    /\ after.token_expires = before.token_expires

\* C13: no heartbeat, accepted or rejected, changes a record's relay_token or
\* token_expires; a token is set only by a successful registration (201),
\* which creates the record.
C13_TokenLifecycleFrame ==
    resp.pending =>
        /\ \A a \in DOMAIN resp.agents :
              a \in DOMAIN relay_agents /\ SameToken(resp.agents[a], relay_agents[a])
        /\ DOMAIN relay_agents # DOMAIN resp.agents \/ next_token # resp.next_token
              => WasUnknown /\ resp.status = 201

\* a heartbeat sent after the clock moved has been answered 200 and the
\* record keeps the token and the expiry it got at registration
C13_Witness ==
    /\ WasKnown /\ resp.status = 200
    /\ clock > Stored.last_heartbeat
    /\ relay_agents[resp.req.agent_id].last_heartbeat = clock
    /\ SameToken(Stored, relay_agents[resp.req.agent_id])

Registered(a) ==
    {t \in Workers : /\ workers[t].pc = "done"
                     /\ workers[t].req.agent_id = a
                     /\ workers[t].status = 201}

\* C14: under every interleaving of concurrent validly signed registration
\* pings for one agent_id, at most one of them is answered 201, the record
\* carries the relay_token that answer returned, and no token is issued
\* without a 201.
C14_RegistrationRace ==
    /\ \A a \in RelayIds : Cardinality(Registered(a)) <= 1
    /\ \A t \in Workers :
          workers[t].pc = "done" /\ workers[t].status = 201 =>
              /\ workers[t].req.agent_id \in DOMAIN relay_agents
              /\ relay_agents[workers[t].req.agent_id].relay_token
                    = workers[t].relay_token
    /\ next_token = 1 + Cardinality(DOMAIN relay_agents)

\* two registration pings for one unknown agent_id arrived before either was
\* handled; both are answered, one with 201
C14_Witness ==
    \E t, u \in Workers :
        /\ t # u
        /\ workers[t].pc = "done" /\ workers[u].pc = "done"
        /\ workers[t].req.agent_id = workers[u].req.agent_id
        /\ ~workers[t].found /\ ~workers[u].found
        /\ workers[t].status = 201
        /\ workers[u].status # 201

AllCallsDone == \A p \in Callers : calls.of[p].pc = "done"

\* the stores the concurrent calls leave when run one after the other
RECURSIVE SerialResults(_, _)
SerialResults(keys, ps) ==
    IF ps = {} THEN {keys}
    ELSE UNION {SerialResults(ApplyCall(keys, calls.of[p].call, clock).keys,
                              ps \ {p}) : p \in ps}

\* C15: whatever the interleaving of concurrent trust_key, rotate_key and
\* revoke_key calls, the store they leave is the one some sequential order
\* of the same calls leaves.
C15_CallsSerialized ==
    AllCallsDone => known_keys \in SerialResults(calls.base, Callers)

\* an envelope for agent a whose embedded key derives to a, differs from
\* the stored key and comes with a rotation proof by the stored key
ProvenKeyChange(keys, e, a) ==
    /\ e.agent_id = a
    /\ IsHex(e.pubkey)
    /\ AgentIdFromPubkey(e.pubkey) = a
    /\ e.pubkey # keys[a].pubkey_hex
    /\ RotationProofOk(keys[a].pubkey_hex, e.pubkey, e.sig)

RotatedTo(keys, a, old, new_pubkey_hex) ==
    /\ a \in DOMAIN keys
    /\ keys[a].pubkey_hex = new_pubkey_hex
    /\ Contains(keys[a].previous_keys, old.pubkey_hex)
    /\ keys[a].rotation_count = old.rotation_count + 1

\* C16: a scan that returns and has processed an envelope with a valid
\* rotation proof leaves the new key in the persisted record of its
\* agent_id, the old key in previous_keys and rotation_count one higher.
C16_RotationPersisted ==
    \A inbox \in Inboxes, a \in DOMAIN known_keys, i \in 1..MaxInbox :
        LET r == read_inbox(known_keys, inbox, clock) IN
        (/\ i <= Len(inbox)
         /\ ProvenKeyChange(known_keys, inbox[i], a)
         /\ ~r.raised)
        => RotatedTo(r.keys, a, known_keys[a], inbox[i].pubkey)

\* the envelope embeds the key its agent_id derives from, with no sig or
\* with a sig that is not even hex
UnsignedSighting(e) ==
    /\ IsHex(e.pubkey)
    /\ AgentIdFromPubkey(e.pubkey) = e.agent_id
    /\ e.sig \in {NoSig, BadHexSig}

\* C17: a scan of an envelope whose embedded key derives to its agent_id
\* and whose sig is missing or invalid leaves the key store as it was: no
\* record is created and no last_seen refreshed.
C17_VerifiedSightingsOnly ==
    \A e \in Envelopes :
        UnsignedSighting(e) => read_inbox(known_keys, <<e>>, clock).keys = known_keys

\* C18: no rotation proof is accepted against the key of a record whose
\* last sighting lies more than ttl_seconds back.
C18_ExpiredNeverTrusted ==
    \A a \in DOMAIN known_keys, k \in Keys, s \in RotationSigs :
        is_key_expired(known_keys[a], clock)
        => ~rotate_key(known_keys, a, k, s, clock).ret

Age(a) == clock - known_keys[a].last_seen

NotExpired == {a \in DOMAIN known_keys : Age(a) <= DEFAULT_KEY_TTL_SECONDS}

\* C19: a record is expired exactly when now - last_seen exceeds ttl_seconds
\* (30 days by default; not at the boundary itself); list_keys without
\* show_expired returns exactly the records that are not expired, with
\* show_expired every record, and either call leaves the store as it was.
C19_ExpiryAndListing ==
    [][\A show_expired \in BOOLEAN :
          ListKeys(show_expired)
          => /\ known_keys' = known_keys
             /\ \A a \in DOMAIN known_keys :
                   /\ known_keys[a].ttl_seconds = 30 * 24 * 60 * 60
                   /\ is_key_expired(known_keys[a], clock)
                          <=> Age(a) > known_keys[a].ttl_seconds
             /\ op'.listed = IF show_expired THEN known_keys
                             ELSE Only(known_keys, NotExpired)]_vars

\* list_keys without show_expired has returned a record exactly one ttl
\* after its last sighting
C19_Witness ==
    /\ op.name = "list_keys"
    /\ ~op.ret
    /\ \E a \in DOMAIN op.listed : Age(a) = DEFAULT_KEY_TTL_SECONDS

\* C20: revoke_key returns true exactly when the agent_id had a record;
\* after true that record is gone and every other record is as before;
\* after false the store is as before.
C20_RevokeKey ==
    [][\A a \in AgentIds :
          RevokeKey(a)
          => /\ op'.ret <=> a \in DOMAIN known_keys
             /\ op'.ret =>
                   /\ DOMAIN known_keys' = DOMAIN known_keys \ {a}
                   /\ \A b \in DOMAIN known_keys' : known_keys'[b] = known_keys[b]
             /\ ~op'.ret => known_keys' = known_keys]_vars

\* a revocation has returned true and left another agent's record
C20_Witness ==
    /\ op.name = "revoke_key"
    /\ op.ret
    /\ known_keys # <<>>

\* C21: an envelope or ping whose ts lies a freshness window (one hour) or
\* more back is rejected, whether or not its nonce was seen before and
\* however it is signed: the guard does not admit it and leaves the nonce
\* set alone; the relay answers neither 200 nor 201 and changes no record.
C21_StaleRejected ==
    /\ \A cache \in SUBSET Nonces, n \in Nonces :
          LET r == check_envelope_window(
                       cache, [nonce |-> n, ts |-> clock - NONCE_WINDOW_S], clock) IN
          ~r.ok /\ r.cache = cache
    /\ resp.pending /\ clock - resp.req.ts >= NONCE_WINDOW_S
          => ~Accepted /\ TableUnchanged

\* a heartbeat with the right token and a nonce not used before, but an
\* hour-old ts, has been refused for its ts alone
C21_Witness ==
    /\ Authenticated
    /\ resp.req.nonce # ""
    /\ resp.req.nonce \notin resp.log.accepted
    /\ clock - resp.req.ts = NONCE_WINDOW_S
    /\ resp.status = 400
    /\ resp.error = "stale timestamp"

TokenExpired == WasKnown /\ clock > Stored.token_expires

\* a ping that would register its agent_id if the agent_id were unknown
SignedRegistration(req) ==
    /\ req.pubkey_hex # ""
    /\ Derives(req)
    /\ SigVerifies(req)
    /\ req.relay_token = NoToken
    /\ ~IsStale(req.ts, clock)

\* C22: once a record's token_expires has passed, a heartbeat presenting
\* its token is answered 403, and a validly signed registration ping for the
\* same agent_id is accepted and leaves the record with a new relay_token
\* that has not expired.
C22_ReRegistration ==
    /\ TokenExpired /\ resp.req.relay_token = Stored.relay_token
          => resp.status = 403
    /\ TokenExpired /\ SignedRegistration(resp.req) /\ resp.req.nonce = ""
          => /\ Accepted
             /\ relay_agents[resp.req.agent_id].relay_token # Stored.relay_token
             /\ relay_agents[resp.req.agent_id].token_expires >= clock

\* neither the embedded pubkey nor the sig of the envelope is malformed hex
HexWellFormed(e) ==
    /\ e.pubkey = "" \/ IsHex(e.pubkey)
    /\ e.sig # BadHexSig

\* C23: a scan raises on no inbox content; envelopes whose pubkey or sig is
\* not valid hex are skipped, so the scan persists what a scan of the
\* remaining envelopes persists.
C23_ScanNeverRaises ==
    \A inbox \in Inboxes :
        LET r == read_inbox(known_keys, inbox, clock) IN
        /\ ~r.raised
        /\ r.keys = read_inbox(known_keys, SelectSeq(inbox, HexWellFormed), clock).keys

\* C24: when the key file is missing, unreadable or holds no valid JSON
\* mapping, trust_key, revoke_key, rotate_key, list_keys and read_inbox
\* complete without raising and do what they do on an empty store.
C24_DamagedFileIsEmptyStore ==
    file_damage # "none" =>
        \A c \in FileCalls :
            LET r == file_call(file_damage, known_keys, c, clock)
                e == file_call("none", Only(known_keys, {}), c, clock) IN
            /\ ~r.raised
            /\ r.ret = e.ret /\ r.listed = e.listed
            /\ r.damage = "none" => r.keys = e.keys

LastMarked == mark_log[Len(mark_log)]

Holds(entries, nonce) == \E i \in 1..Len(entries) : entries[i].nonce = nonce

\* C25: after mark_read(n) with n not empty, whatever the read set was,
\* read_inbox flags every envelope with nonce n as read, leaves it out with
\* unread_only and returns it without; marking n again changes nothing.
C25_ReadTracking ==
    mark_log # <<>> /\ LastMarked # "" =>
        /\ \A inbox \in NonceInboxes :
              LET all == read_entries(inbox, read_nonces, FALSE)
                  unread == read_entries(inbox, read_nonces, TRUE) IN
              /\ Len(all) = Len(inbox)
              /\ \A i \in 1..Len(all) :
                    all[i].nonce = LastMarked => all[i].is_read
              /\ ~Holds(unread, LastMarked)
        /\ save_read_nonce(read_nonces, LastMarked) = {read_nonces}

FirstMark(n) == CHOOSE i \in 1..Len(mark_log) :
                    mark_log[i] = n /\ \A j \in 1..(i - 1) : mark_log[j] # n

LastMark(n) == CHOOSE i \in 1..Len(mark_log) :
                   mark_log[i] = n /\ \A j \in (i + 1)..Len(mark_log) : mark_log[j] # n

Marked == {mark_log[i] : i \in 1..Len(mark_log)}

\* C26: the read set never holds more than the cap, and a nonce that was
\* evicted was marked before every nonce that is retained, so the nonce
\* marked last is always in the set.
C26_BoundedOldestFirst ==
    /\ Cardinality(read_nonces) <= MaxReadNonces
    /\ \A v \in Marked \ read_nonces, r \in read_nonces :
          FirstMark(v) < LastMark(r)
    /\ mark_log # <<>> => LastMarked \in read_nonces

AllowedInWindow(key) ==
    Len(InWindow(allowed_log[key], clock))

\* C27: in no window of window_seconds does is_allowed return True for one
\* key more than requests_per_minute times, whatever calls are made with
\* whatever keys and whether or not cleanup and eviction run.
C27_SlidingWindowLimit ==
    \A key \in LimiterKeys : AllowedInWindow(key) <= requests_per_minute

Posts == {i \in 1..Len(send.trail) : send.trail[i].ev = "post"}
Sleeps == {i \in 1..Len(send.trail) : send.trail[i].ev = "sleep"}

\* answered with 429 or 5xx, or not answered at all
FailedRetryably(response) ==
    \/ response.kind = "network"
    \/ response.status = 429
    \/ response.status >= 500

Answered(response) == response.kind = "http" /\ response.status < 400

SendOver == send.pc \in {"returned", "raised"}

\* C28: _send_payload posts at most max_retries times; it returns the result
\* of the first attempt answered below 400; an attempt is followed by another
\* only after 429, 5xx or a network error; when every attempt failed that
\* way it raises DiscordError "Failed after N attempts", and the last thing
\* it did was an attempt, not a sleep.
C28_BoundedRetries ==
    /\ Cardinality(Posts) <= send.max_retries
    /\ send.pc = "attempting" => Cardinality(Posts) < send.max_retries
    /\ \A i \in Posts :
          /\ i < Len(send.trail) => FailedRetryably(send.trail[i].resp)
          /\ Answered(send.trail[i].resp) =>
                /\ i = Len(send.trail)
                /\ send.pc = "returned" /\ send.status = send.trail[i].resp.status
    /\ (/\ SendOver /\ ~send.dry_run /\ send.error # UrlRequired
        /\ \A i \in Posts : FailedRetryably(send.trail[i].resp))
          => /\ send.pc = "raised"
             /\ send.error = FailedAfter(send.max_retries)
             /\ Cardinality(Posts) = send.max_retries
             /\ Len(send.trail) \notin Sleeps

\* all of max_retries attempts have failed, one answered 429 and one not
\* answered at all, with a sleep between them only
C28_Witness ==
    /\ send.pc = "raised"
    /\ send.max_retries = MaxRetries
    /\ Cardinality(Posts) = MaxRetries
    /\ Cardinality(Sleeps) = MaxRetries - 1
    /\ \E i, j \in Posts : /\ send.trail[i].resp.status = 429
                          /\ send.trail[j].resp = NetworkError

ClientStatus(response) ==
    /\ response.kind = "http"
    /\ 400 <= response.status /\ response.status < 500
    /\ response.status # 429

\* C29: an attempt answered with a 4xx other than 429 is the last thing the
\* call does: no sleep, no further POST, DiscordClientError with that status
\* raised; when it is the answer to the first attempt there was exactly one
\* POST, whatever max_retries is.
C29_ClientErrorNotRetried ==
    \A i \in Posts :
        ClientStatus(send.trail[i].resp) =>
            /\ i = Len(send.trail)
            /\ send.pc = "raised"
            /\ send.error = ClientError(send.trail[i].resp.status)
            /\ i = 1 => Cardinality(Posts) = 1 /\ Sleeps = {}

\* with retries left, the first attempt was answered 404 and the call is over
C29_Witness ==
    /\ send.pc = "raised"
    /\ send.max_retries = MaxRetries
    /\ send.trail = <<PostEvent(Response("http", 404))>>
    /\ send.error = ClientError(404)

WellFormedLines == {i \in 1..Len(listener.file) : listener.file[i].wellformed}

\* C30: a poll never fails; once a poll has read past a well-formed event
\* line that line has been returned by exactly one poll, and no line is
\* returned before; a poll returns at most max_backlog events, and
\* max_backlog of them when more were pending.
C30_DeliveredOnce ==
    /\ ~listener.raised
    /\ \A i \in WellFormedLines :
          listener.delivered[i] = IF i <= listener.file_offset THEN 1 ELSE 0
    /\ Len(listener.returned) <= max_backlog
    /\ listener.polled /\ listener.file_offset < Len(listener.file)
          => Len(listener.returned) = max_backlog

(***************************************************************************)
(* C31: no envelope is admitted twice by the replay guard.                 *)
(***************************************************************************)
\* C31: an envelope (fixed nonce and ts, a ts ahead of the clock included)
\* that was admitted once is rejected by every later check, whatever checks,
\* evictions and clock advances lie between: as a replay while its nonce is
\* retained, as stale otherwise.
C31_NeverAdmittedTwice ==
    replay.last.again =>
        /\ ~replay.last.ok
        /\ replay.last.reason \in {"replay", "stale"}
        /\ ~replay.last.retained => replay.last.reason = "stale"

(***************************************************************************)
(* C32: a scan does not undo concurrent key-store changes.                 *)
(***************************************************************************)
\* the two mappings agree on agent a: both lack it or both hold the same record
SameRecord(k1, k2, a) ==
    /\ (a \in DOMAIN k1) = (a \in DOMAIN k2)
    /\ a \in DOMAIN k1 => k1[a] = k2[a]

\* the scanned inbox holds an envelope of agent a
Addressed(inbox, a) == \E i \in 1..Len(inbox) : inbox[i].agent_id = a

\* C32: what trust_key, rotate_key or revoke_key did to an agent's record
\* between the scan's load of the key store and its save is still in the
\* persisted store when the scan has returned (the scanned inbox holding no
\* envelope of that agent); a key revoked during the scan stays revoked.
C32_ScanKeepsConcurrentChanges ==
    [][(scan.pc = "loaded" /\ scan'.pc = "returned") =>
          \A a \in AgentIds :
             (~SameRecord(scan.mem, known_keys, a) /\ ~Addressed(scan.inbox, a))
                => SameRecord(known_keys, known_keys', a)]_vars

NoDuplicates(s) == \A i, j \in 1..Len(s) : s[i] = s[j] => i = j

\* C34: in every record, after any sequence of rotations (rotating back to
\* an earlier key included), previous_keys holds no key twice, does not hold
\* the record's current pubkey_hex, and has exactly rotation_count entries.
C34_PreviousKeysSuperseded ==
    \A a \in DOMAIN known_keys :
        /\ NoDuplicates(known_keys[a].previous_keys)
        /\ ~Contains(known_keys[a].previous_keys, known_keys[a].pubkey_hex)
        /\ Len(known_keys[a].previous_keys) = known_keys[a].rotation_count

(***************************************************************************)
(* C35: the timestamps of a record.                                        *)
(***************************************************************************)
\* C35: a record that exists before and after a call (a same-key refresh, a
\* rotation, an auto-learn refresh) keeps its first_seen, and keeps its
\* ttl_seconds; first_seen <= last_seen holds in every record, the clock
\* never running backwards.
C35_RecordTimestamps ==
    [][\A a \in DOMAIN known_keys' :
          /\ known_keys'[a].first_seen <= known_keys'[a].last_seen
          /\ a \in DOMAIN known_keys =>
                /\ known_keys'[a].first_seen = known_keys[a].first_seen
                /\ known_keys'[a].ttl_seconds = known_keys[a].ttl_seconds]_vars

\* a scan has returned and the store holds a rotated record that was seen
\* now, later than it was first seen
C35_Witness ==
    /\ op.name = "read_inbox"
    /\ \E a \in DOMAIN known_keys :
          /\ known_keys[a].rotation_count >= 1
          /\ known_keys[a].first_seen < known_keys[a].last_seen
          /\ known_keys[a].last_seen = clock

(***************************************************************************)
(* C36: filters do not influence what is persisted.                        *)
(***************************************************************************)
\* C36: for the same inbox file, key store and read set, read_inbox leaves
\* the same persisted keys whatever kind, agent_id, since, unread_only and
\* limit are (keys are learned from the envelopes the filters exclude too),
\* and it leaves the read-nonce set as it was.
C36_FiltersDoNotInfluencePersistence ==
    \A entries \in FilterInboxes :
        LET plain == read_inbox_filtered(known_keys, read_nonces, entries,
                                         NoFilters, clock) IN
        \A f \in Filters :
            LET r == read_inbox_filtered(known_keys, read_nonces, entries, f, clock) IN
            /\ r.keys = plain.keys
            /\ r.read_nonces = read_nonces

\* a call has returned nothing and yet stored a record for a new agent
C36_Witness ==
    /\ op.name = "read_inbox" /\ op.ret
    /\ op.results = 0
    /\ op.learned # {}

(***************************************************************************)
(* C37: the rate-limit retry honours the server delay.                     *)
(***************************************************************************)
\* the delay the server supplied with a 429: its Retry-After header, else
\* the retry_after field of the body
Supplied(response) ==
    IF response.header.given THEN response.header ELSE response.retry_after

\* the call returned on its second request, the first one answered 429
RateLimitedThenSuccess ==
    /\ send.pc = "returned" /\ ~send.dry_run
    /\ Cardinality(Posts) = 2
    /\ send.trail[1].resp.status = 429

Live(reqs, now) ==
    LET InUse(e) == InWindow(e.timestamps, now) # <<>> IN SelectSeq(reqs, InUse)

\* C38: cleanup_threshold <= max_entries; whenever is_allowed has returned,
\* after any is_allowed and get_remaining calls, at most max_entries + 1
\* keys are tracked; and a cleanup that runs evicts keys with timestamps
\* inside the window only as far as they exceed max_entries once the keys
\* without such timestamps are gone.
C38_BoundedLimiterMemory ==
    /\ cleanup_threshold <= max_entries
    /\ limiter_op.name = "is_allowed" => Len(requests) <= max_entries + 1
    /\ Len(requests) >= cleanup_threshold =>
          LET live == Live(requests, clock)
              cleaned == cleanup_stale(requests, clock) IN
          /\ Live(cleaned, clock) = cleaned
          /\ Len(cleaned) = IF Len(live) > max_entries THEN max_entries ELSE Len(live)

\* is_allowed has returned with max_entries + 1 keys tracked, and its
\* cleanup dropped a key without timestamps and evicted one that had a
\* timestamp inside the window
C38_Witness ==
    /\ limiter_op.name = "is_allowed"
    /\ Len(requests) = max_entries + 1
    /\ \E i, j \in 1..Len(limiter_op.before) :
          /\ limiter_op.before[i].timestamps = <<>>
          /\ InWindow(limiter_op.before[j].timestamps, limiter_op.at) # <<>>
          /\ ~HasKey(requests, limiter_op.before[j].key)

(***************************************************************************)
(* C39: queries and denials do not consume quota.                          *)
(***************************************************************************)
\* the call just returned was a query or a denial
QueryOrDenial ==
    \/ limiter_op.name = "get_remaining"
    \/ limiter_op.name = "is_allowed" /\ ~limiter_op.allowed

\* C39: get_remaining(key) and an is_allowed(key) call that returns
\* allowed=false leave the tracked keys and every key's timestamps as they
\* were, so that any later is_allowed call has the outcome it would have
\* had without them.
C39_QueriesAndDenialsFrame ==
    QueryOrDenial =>
        /\ requests = limiter_op.before
        /\ \A key \in LimiterKeys, d \in 0..window_seconds :
              is_allowed(requests, key, clock + d).allowed
                 = is_allowed(limiter_op.before, key, clock + d).allowed

(***************************************************************************)
(* C40: token bucket capacity.                                             *)
(***************************************************************************)
\* the bucket of ip holds capacity tokens at time now: none yet, or refilled
IsFull(bkts, ip, now) ==
    ip \in DOMAIN bkts =>
        bkts[ip].tokens + (now - bkts[ip].last_refill) * refill_rate
           >= capacity * TokenScale

\* the outcomes of n allow(ip) calls in a row at time now
RECURSIVE Outcomes(_, _, _, _)
Outcomes(bkts, ip, now, n) ==
    IF n = 0 THEN <<>>
    ELSE LET r == allow(bkts, ip, now) IN
         <<r.allowed>> \o Outcomes(r.buckets, ip, now, n - 1)

\* C40: every bucket holds between 0 and capacity tokens after any allow
\* calls and idle periods; a fresh or fully refilled bucket allows exactly
\* capacity requests in a row when no time passes and denies the next; an
\* allow call for one ip changes neither the bucket of another ip nor the
\* outcome of that ip's next call.
C40_TokenBucketCapacity ==
    /\ \A ip \in DOMAIN buckets :
          0 <= buckets[ip].tokens /\ buckets[ip].tokens <= capacity * TokenScale
    /\ \A ip \in BucketIps :
          IsFull(buckets, ip, clock) =>
              Outcomes(buckets, ip, clock, capacity + 1)
                 = [i \in 1..(capacity + 1) |-> i <= capacity]
    /\ \A ip, other \in BucketIps :
          ip # other =>
              LET after == allow(buckets, other, clock).buckets IN
              /\ allow(after, ip, clock).allowed = allow(buckets, ip, clock).allowed
              /\ ip \in DOMAIN buckets => after[ip] = buckets[ip]

\* a request was denied with the bucket drained at this very instant, while
\* the other ip's bucket has tokens left; and a bucket has been refilled
\* to its capacity by an idle period
C40_Witness ==
    /\ ~bucket_op.allowed /\ bucket_op.at = clock
    /\ bucket_op.ip \in DOMAIN buckets
    /\ buckets[bucket_op.ip].tokens < TokenScale
    /\ \E other \in DOMAIN buckets :
          /\ other # bucket_op.ip
          /\ buckets[other].tokens < capacity * TokenScale
          /\ buckets[other].last_refill < clock
          /\ IsFull(buckets, other, clock)

====
